---- MODULE Spec2Model ----
(***************************************************************************)
(* A model of pipx's spec export / import engine                           *)
(* (src/src/pipx/commands/pipx_spec.py): export_spec walks the venv        *)
(* container and writes one JSON document, install_spec reads such a       *)
(* document and drives install / inject to rebuild every environment.      *)
(* Beside it: the listing of list_packages.py (list_command,               *)
(* list_packages, the version lookups), export_json of import_export.py,   *)
(* the index lookups of simple_interface.py and index_simple.py, and       *)
(* uninject of uninject.py. Each command has its own specification:        *)
(* SpecExport, SpecInstall, SpecList, SpecLookup, SpecUninject, and        *)
(* SpecJson for export_json and install_json of import_export.py;          *)
(* SpecExports has export_spec and export_json each called twice.          *)
(*                                                                         *)
(* Python values are modelled as follows.                                  *)
(*   - a package specifier string is a record [kind, name, ver]:           *)
(*       kind "name"    a bare PEP 508 name            ("black")           *)
(*       kind "pin"     an exact pin, as pip freeze prints ("black==1.0")  *)
(*       kind "path"    a local path that exists on this machine           *)
(*       kind "badpath" a local path that does not exist on this machine   *)
(*       kind "url"     a URL                ("https://host/black.whl")    *)
(*       kind "pep508url" a PEP 508 requirement with a URL                 *)
(*                                           ("black @ https://host/b.whl") *)
(*       kind "none"    Python's None                                      *)
(*   - a dict is a sequence of [key, val] records in insertion order;      *)
(*   - an Optional[str] holds the string None_ for None.                   *)
(***************************************************************************)
EXTENDS Integers, Sequences, FiniteSets, TLC

VARIABLES
    disk,               \* the venv container: venv name -> directory state
    pc,                 \* position of the running command
    ret,                \* the command's return value (an exit code) or None_
    exc,                \* the exception that left the command, or None_
    printed,            \* what the command reported to the user, in order
    \* ---- export_spec
    skip_list, include_list, freeze, freeze_all,
    venv_dirs_export,   \* candidate venv names, in order
    spec_metadata,      \* the document under construction
    out_file,           \* the output file: [written, content]
    venv_i,             \* index of the venv being exported
    freeze_i,           \* index of the pip freeze line being processed
    pip_freeze_dict,    \* the frozen map of the venv being exported
    package_path,       \* export_spec's local: _local_package_path's result
    first_file,         \* the output file as the previous export left it
    first_end,          \* how the previous export ended, and its workers' order
    command,            \* the export command that is called twice
    runs,               \* how many times export_spec has been called
    \* ---- install_spec
    in_file,            \* the spec document read by install_spec
    disk_before,        \* the container as it was when the command began
    force,              \* the caller's --force flag
    venv_metadata,      \* metadata rebuilt from the document (from_dict)
    freeze_data,        \* [has, map]: the document's pip_freeze of this venv
    venv,               \* the Venv object: its pipx_metadata snapshot
    main_package_or_url, install_force,
    inject_i,           \* index into the injected loop
    ops,                \* collaborator calls performed so far, in order
    \* ---- list_command / list_packages
    only_outdated,      \* the caller's --outdated flag
    pool,               \* TRUE when multiprocessing's Pool could be imported
    pip_config,         \* [index_url, extra_index_urls] of the pip configuration
    all_dirs,           \* list_command's dirs: the sorted venv directories
    list_dirs,          \* list_packages' dirs argument
    results,            \* the pool's results, by position in list_dirs
    completed,          \* positions of list_dirs in the order workers finished
    emit_i,             \* index of the next summary list_packages prints
    all_venv_problems,  \* the accumulated VenvProblems
    dirs_version_unknown, dirs_version_outdated,
    lookups,            \* index lookups performed so far, in order
    \* ---- uninject
    dependencies,       \* the names the caller asked to uninject, in order
    dep_i,              \* index of the dependency uninject is at
    all_success,        \* uninject's local: no dependency was refused so far
    calls,              \* how many times uninject has been called
    \* ---- export_json
    export_dirs,        \* export_json's dirs: the sorted venv directories
    export_results,     \* the results of its map, by position in export_dirs
    export_completed    \* positions of export_dirs in the order they were read

exportVars == <<skip_list, include_list, freeze, freeze_all, venv_dirs_export,
                spec_metadata, out_file, freeze_i, pip_freeze_dict,
                package_path, first_file, first_end, command, runs>>
installVars == <<in_file, disk_before, force, venv_metadata, freeze_data, venv,
                 main_package_or_url, install_force, inject_i, ops>>
listVars == <<only_outdated, pool, pip_config, all_dirs, list_dirs, results,
              completed, emit_i, all_venv_problems, dirs_version_unknown,
              dirs_version_outdated, lookups>>
uninjectVars == <<dependencies, dep_i, all_success, calls>>
jsonVars == <<export_dirs, export_results, export_completed>>
vars == <<disk, pc, ret, exc, printed, venv_i, exportVars, installVars,
          listVars, uninjectVars, jsonVars>>

-----------------------------------------------------------------------------
(* Bounds of the model *)

\* Most packages injected into one environment.
MaxInjected == 2
\* Most transitive dependencies installed in one environment.
MaxDeps == 1

-----------------------------------------------------------------------------
(* Python values *)

None_ == "None"

PIPX_SPEC_VERSION == "0.1"

\* The schema version marker PipxMetadata writes with every metadata file.
PIPX_METADATA_VERSION == "0.1"

EXIT_CODE_OK == "EXIT_CODE_OK"
EXIT_CODE_EXPORT_MISSING_METADATA == "EXIT_CODE_EXPORT_MISSING_METADATA"

\* One line of output: a message and the name it is about.
Msg(m, a) == [msg |-> m, arg |-> a]

Range(s) == {s[i] : i \in DOMAIN s}

\* dict helpers: a dict is a sequence of [key, val] in insertion order
DictKeys(d) == {d[i].key : i \in DOMAIN d}
DictHas(d, k) == k \in DictKeys(d)
DictGet(d, k) == d[CHOOSE i \in DOMAIN d : d[i].key = k].val
DictSet(d, k, v) ==
    IF DictHas(d, k)
    THEN [i \in DOMAIN d |-> IF d[i].key = k THEN [key |-> k, val |-> v] ELSE d[i]]
    ELSE Append(d, [key |-> k, val |-> v])

\* Every name of the model in lexicographic order (str comparison).
NamesSorted == <<"B", "a", "b", "black", "c", "flake8", "idna", "isort",
                 "pylint", "six", "urllib3">>

\* sorted(names): the names of a set in lexicographic order
Sorted(S) == SelectSeq(NamesSorted, LAMBDA n : n \in S)

\* json.dump without sort_keys: entries in insertion order
SortKeys_InsertionOrder(d) == d

\* json.dump(..., sort_keys=True) on one dict: entries in key order
SortKeys(d) == [i \in 1..Len(d) |-> [key |-> Sorted(DictKeys(d))[i],
                                     val |-> DictGet(d, Sorted(DictKeys(d))[i])]]

-----------------------------------------------------------------------------
(* Package specifiers (pipx.package_specifier) *)

Specifier(kind, name, ver) == [kind |-> kind, name |-> name, ver |-> ver]
NoSpec == Specifier("none", "", "")
NameSpec(n) == Specifier("name", n, "")
PinSpec(n, v) == Specifier("pin", n, v)
PathSpec(n) == Specifier("path", n, "")
BadPathSpec(n) == Specifier("badpath", n, "")
UrlSpec(n) == Specifier("url", n, "")
Pep508UrlSpec(n) == Specifier("pep508url", n, "")

\* parse_specifier(s).valid_local_path
valid_local_path(s) == s.kind = "path"

\* _parse_specifier(s).valid_url
valid_url(s) == s.kind = "url"

\* _parse_specifier(s).valid_pep508 is a requirement that carries a URL
valid_pep508_with_url(s) == s.kind = "pep508url"

\* parse_specifier_for_install(s, pip_args) does not raise PipxError
installable(s) == s.kind \in {"name", "pin", "path", "url", "pep508url"}

\* parse_pip_freeze_specifier(line): the package a pip freeze line names
parse_pip_freeze_specifier(s) == s.name

-----------------------------------------------------------------------------
(* The metadata model (pipx.pipx_metadata_file) *)

PackageInfo(package, package_or_url, pip_args, include_apps, include_dependencies, apps, app_paths, apps_of_dependencies, app_paths_of_dependencies, package_version, suffix) ==
    [package |-> package, package_or_url |-> package_or_url,
     pip_args |-> pip_args, include_apps |-> include_apps,
     include_dependencies |-> include_dependencies, apps |-> apps,
     app_paths |-> app_paths, apps_of_dependencies |-> apps_of_dependencies,
     app_paths_of_dependencies |-> app_paths_of_dependencies,
     package_version |-> package_version, suffix |-> suffix]

\* The PackageInfo of a record that was never written.
EmptyPackageInfo ==
    PackageInfo(None_, NoSpec, <<>>, TRUE, FALSE, <<>>, <<>>, <<>>, <<>>,
                "", "")

PipxMetadata(main_package, injected_packages, venv_args) ==
    [main_package |-> main_package, injected_packages |-> injected_packages,
     venv_args |-> venv_args]

\* PipxMetadata(venv_dir, read=False), and what read() leaves when the file
\* is missing.
EmptyMetadata == PipxMetadata(EmptyPackageInfo, <<>>, <<>>)

\* PipxMetadata(venv_dir): construct and read() the venv's metadata file.
ReadMetadata(d, v) ==
    IF d[v].exists /\ d[v].has_file THEN d[v].file ELSE EmptyMetadata

\* PipxMetadata.to_dict(): the JSON-compatible form, with the schema version.
to_dict(m) ==
    [main_package |-> m.main_package,
     injected_packages |-> m.injected_packages,
     venv_args |-> m.venv_args,
     version |-> PIPX_METADATA_VERSION]

\* PipxMetadata.from_dict(): the in-memory form of a document's metadata.
from_dict(j) ==
    PipxMetadata(j.main_package, j.injected_packages, j.venv_args)

-----------------------------------------------------------------------------
(* Helpers of pipx_spec.py *)

_package_info_modify_package_or_url_(original_package_info, package_or_url) ==
    PackageInfo(original_package_info.package,
                package_or_url,
                original_package_info.pip_args,
                original_package_info.include_apps,
                original_package_info.include_dependencies,
                original_package_info.apps,
                original_package_info.app_paths,
                original_package_info.apps_of_dependencies,
                original_package_info.app_paths_of_dependencies,
                original_package_info.package_version,
                original_package_info.suffix)

\* _get_user_installed_packages: [raised, value]; raises PipxError when an
\* injected package has no name.
_get_user_installed_packages(md) ==
    IF \E i \in DOMAIN md.injected_packages :
          md.injected_packages[i].val.package = None_
    THEN [raised |-> TRUE, value |-> <<>>]
    ELSE [raised |-> FALSE,
          value |-> <<md.main_package.package>> \o
                    [i \in DOMAIN md.injected_packages |->
                        md.injected_packages[i].val.package]]

_pip_args_all_same(md) ==
    \A i \in DOMAIN md.injected_packages :
        md.injected_packages[i].val.pip_args = md.main_package.pip_args

\* _local_package_path: [raised, value]; value NoSpec is Python's None.
\* The loop over the injected packages returns in its first iteration.
_local_package_path(package, md) ==
    IF package = md.main_package.package
    THEN IF md.main_package.package_or_url = NoSpec
         THEN [raised |-> TRUE, value |-> NoSpec]
         ELSE IF valid_local_path(md.main_package.package_or_url)
              THEN [raised |-> FALSE, value |-> md.main_package.package_or_url]
              ELSE [raised |-> FALSE, value |-> NoSpec]
    ELSE IF md.injected_packages = <<>>
         THEN [raised |-> FALSE, value |-> NoSpec]
         ELSE LET package_or_url == md.injected_packages[1].val.package_or_url
              IN  IF package_or_url = NoSpec
                  THEN [raised |-> TRUE, value |-> NoSpec]
                  ELSE IF valid_local_path(package_or_url)
                       THEN [raised |-> FALSE,
                             value |-> md.main_package.package_or_url]
                       ELSE [raised |-> FALSE, value |-> NoSpec]

\* _venvs_with_missing_metadata stopping at the first offender.
_venvs_with_missing_metadata_first(d, venv_dirs) ==
    LET all == SelectSeq(venv_dirs,
                  LAMBDA v : ReadMetadata(d, v).main_package.package = None_)
    IN  SubSeq(all, 1, IF all = <<>> THEN 0 ELSE 1)

\* _venvs_with_missing_metadata: names of the dirs whose main package is None
_venvs_with_missing_metadata(d, venv_dirs) ==
    SelectSeq(venv_dirs,
              LAMBDA v : ReadMetadata(d, v).main_package.package = None_)

-----------------------------------------------------------------------------
(* Inputs: the environments a container can hold *)

VenvNames == {"a", "b", "c"}
InjectNames == <<"pylint", "black", "isort">>
DepNames == <<"urllib3", "idna", "six">>
InstalledVersion == "1.0"

SeqsUpTo(S, n) == UNION {[1..k -> S] : k \in 0..n}

\* The specifier a user gave for package n: a name, or a local path.
UserSpec(kind, n) ==
    IF kind = "path" THEN PathSpec(n)
    ELSE IF kind = "badpath" THEN BadPathSpec(n)
    ELSE NameSpec(n)

\* The PackageInfo an install of package n from specifier s left behind.
InstalledInfo(n, s, pip_args, include_apps) ==
    PackageInfo(n, s, pip_args, include_apps, FALSE, <<n>>, <<n>>, <<>>, <<>>,
                InstalledVersion, "")

\* The shapes of an installed environment: how the main package and each
\* injected package were specified, and how many dependencies came along.
Shapes ==
    [main : {"name", "path"},
     inj : SeqsUpTo({"name", "path"}, MaxInjected),
     deps : 0..MaxDeps]

\* The metadata of environment v of shape sh (the main package of an
\* environment carries the environment's name).
ShapeMetadata(v, sh) ==
    PipxMetadata(
        InstalledInfo(v, UserSpec(sh.main, v), <<>>, TRUE),
        [i \in DOMAIN sh.inj |->
            [key |-> InjectNames[i],
             val |-> InstalledInfo(InjectNames[i],
                                   UserSpec(sh.inj[i], InjectNames[i]),
                                   <<>>, FALSE)]],
        <<>>)

\* The distributions installed in environment v of shape sh.
ShapeInstalled(v, sh) ==
    {v} \cup {InjectNames[i] : i \in DOMAIN sh.inj}
        \cup {DepNames[i] : i \in 1..sh.deps}

\* What pip freeze prints in environment v of shape sh: one pin for every
\* installed distribution (main, injected, dependencies), in name order.
ShapeFreeze(v, sh) ==
    [i \in 1..Cardinality(ShapeInstalled(v, sh)) |->
        PinSpec(Sorted(ShapeInstalled(v, sh))[i], InstalledVersion)]

AbsentDir == [exists |-> FALSE, empty |-> FALSE, has_file |-> FALSE,
              file |-> EmptyMetadata, installed |-> <<>>]

\* A directory that exists and holds nothing: iterdir() yields no entry.
EmptyDir == [exists |-> TRUE, empty |-> TRUE, has_file |-> FALSE,
             file |-> EmptyMetadata, installed |-> <<>>]

\* A directory installed by a pipx that wrote no metadata file.
LegacyDir(v) == [exists |-> TRUE, empty |-> FALSE, has_file |-> FALSE,
                 file |-> EmptyMetadata,
                 installed |-> <<PinSpec(v, InstalledVersion)>>]

InstalledDir(v, sh) == [exists |-> TRUE, empty |-> FALSE, has_file |-> TRUE,
                        file |-> ShapeMetadata(v, sh),
                        installed |-> ShapeFreeze(v, sh)]

\* A directory with metadata whose packages are no longer installed.
BrokenDir(v, sh) == [exists |-> TRUE, empty |-> FALSE, has_file |-> TRUE,
                     file |-> ShapeMetadata(v, sh),
                     installed |-> <<>>]

DirOf(v, state, sh) ==
    IF state = "absent" THEN AbsentDir
    ELSE IF state = "legacy" THEN LegacyDir(v)
    ELSE IF state = "broken" THEN BrokenDir(v, sh)
    ELSE InstalledDir(v, sh)

\* venv_container.iter_venv_dirs(): the directories under the container
iter_venv_dirs(d) == {v \in DOMAIN d : d[v].exists}

\* The orders in which one iteration of iter_venv_dirs() can yield the
\* directories: Path.iterdir() promises none.
Listings(d) ==
    {l \in [1..Cardinality(iter_venv_dirs(d)) -> iter_venv_dirs(d)] :
        \A i, j \in DOMAIN l : i # j => l[i] # l[j]}

\* The directories in the order the iteration yielded them.
sorted_as_listed(l) == l

\* sorted(venv_container.iter_venv_dirs()), lines 374 and 385 (and
\* import_export.py line 34)
sorted(l) == Sorted({l[i] : i \in DOMAIN l})

\* Venv(venv_dir).pip_freeze(): the freeze collaborator's lines
pip_freeze(d, v) == d[v].installed

-----------------------------------------------------------------------------
(* export_spec *)

NoFile == [written |-> FALSE, content |-> <<>>]

\* No export has ended yet.
NoEnd == [ret |-> None_, exc |-> None_, printed |-> <<>>, completed |-> <<>>]

NoneList == [is_none |-> TRUE, items |-> {}]
SomeList(S) == [is_none |-> FALSE, items |-> S]

EmptySpecMetadata == [spec_version |-> PIPX_SPEC_VERSION, venvs |-> <<>>]

\* FilterDirs with the include test first: a name in include_list is kept
\* even when skip_list names it.
RECURSIVE FilterDirs_IncludeFirst(_, _, _, _, _)
FilterDirs_IncludeFirst(dirs, i, skip, include, acc) ==
    IF i > Len(dirs) THEN acc
    ELSE IF ~include.is_none /\ dirs[i] \in include.items
         THEN FilterDirs_IncludeFirst(dirs, i + 1, skip, include,
                                      Append(acc, dirs[i]))
    ELSE IF dirs[i] \in skip \/ ~include.is_none
         THEN FilterDirs_IncludeFirst(dirs, i + 1, skip, include, acc)
    ELSE FilterDirs_IncludeFirst(dirs, i + 1, skip, include,
                                 Append(acc, dirs[i]))

\* The loop of lines 385-390 over dirs[i..], appending to acc.
RECURSIVE FilterDirs(_, _, _, _, _)
FilterDirs(dirs, i, skip, include, acc) ==
    IF i > Len(dirs) THEN acc
    ELSE IF dirs[i] \in skip
         THEN FilterDirs(dirs, i + 1, skip, include, acc)
    ELSE IF ~include.is_none /\ dirs[i] \notin include.items
         THEN FilterDirs(dirs, i + 1, skip, include, acc)
    ELSE FilterDirs(dirs, i + 1, skip, include, Append(acc, dirs[i]))

\* Lines 405-407 leaving the injected packages out of the entry.
ExportEntry_MainOnly(doc, name, md) ==
    [doc EXCEPT !.venvs =
        DictSet(@, name,
                [metadata |-> to_dict(PipxMetadata(md.main_package, <<>>,
                                                   md.venv_args)),
                 has_pip_freeze |-> FALSE, pip_freeze |-> <<>>])]

\* Lines 405-407: the venv's entry of the document, holding its metadata.
ExportEntry(doc, name, md) ==
    [doc EXCEPT !.venvs =
        DictSet(@, name, [metadata |-> to_dict(md),
                          has_pip_freeze |-> FALSE,
                          pip_freeze |-> <<>>])]

\* json.dump(spec_metadata, indent=4, sort_keys=True): every dict of the
\* document in key order.
JsonDump(doc) ==
    [spec_version |-> doc.spec_version,
     venvs |-> SortKeys(
        [i \in DOMAIN doc.venvs |->
            [key |-> doc.venvs[i].key,
             val |-> [metadata |->
                        [doc.venvs[i].val.metadata EXCEPT
                            !.injected_packages = SortKeys(@)],
                      has_pip_freeze |-> doc.venvs[i].val.has_pip_freeze,
                      pip_freeze |-> SortKeys(doc.venvs[i].val.pip_freeze)]]])]
-----------------------------------------------------------------------------
(* VenvProblems (pipx.commands.common) *)

VenvProblems(bad_venv_name, invalid_interpreter, missing_metadata, not_installed) ==
    [bad_venv_name |-> bad_venv_name,
     invalid_interpreter |-> invalid_interpreter,
     missing_metadata |-> missing_metadata,
     not_installed |-> not_installed]

\* VenvProblems(): no flag set.
NoProblems == VenvProblems(FALSE, FALSE, FALSE, FALSE)

\* VenvProblems.or_: every flag becomes the OR of the two.
or_(a, b) ==
    VenvProblems(a.bad_venv_name \/ b.bad_venv_name,
                 a.invalid_interpreter \/ b.invalid_interpreter,
                 a.missing_metadata \/ b.missing_metadata,
                 a.not_installed \/ b.not_installed)

\* VenvProblems.any_: some flag is set.
any_(a) ==
    \/ a.bad_venv_name
    \/ a.invalid_interpreter
    \/ a.missing_metadata
    \/ a.not_installed

-----------------------------------------------------------------------------
(* State the commands start from *)

IdleExport ==
    /\ skip_list = {} /\ include_list = NoneList
    /\ freeze = FALSE /\ freeze_all = FALSE
    /\ venv_dirs_export = <<>> /\ spec_metadata = EmptySpecMetadata
    /\ out_file = NoFile /\ freeze_i = 0
    /\ pip_freeze_dict = <<>> /\ package_path = NoSpec
    /\ first_file = NoFile /\ runs = 0
    /\ first_end = NoEnd /\ command = None_

IdleInstall ==
    /\ in_file = EmptySpecMetadata /\ force = FALSE
    /\ disk_before = disk
    /\ venv_metadata = EmptyMetadata
    /\ freeze_data = [has |-> FALSE, map |-> <<>>]
    /\ venv = [pipx_metadata |-> EmptyMetadata]
    /\ main_package_or_url = NoSpec /\ install_force = FALSE
    /\ inject_i = 0 /\ ops = <<>>

DEFAULT_PYPI_SIMPLE_URL == "https://pypi.org/simple/"

IdleUninject ==
    /\ dependencies = <<>> /\ dep_i = 0 /\ all_success = TRUE /\ calls = 0

IdleJson ==
    export_dirs = <<>> /\ export_results = <<>> /\ export_completed = <<>>

IdleList ==
    /\ only_outdated = FALSE /\ pool = FALSE
    /\ pip_config = [index_url |-> DEFAULT_PYPI_SIMPLE_URL,
                     extra_index_urls |-> <<>>]
    /\ all_dirs = <<>> /\ list_dirs = <<>> /\ results = <<>> /\ completed = <<>>
    /\ emit_i = 0 /\ all_venv_problems = NoProblems
    /\ dirs_version_unknown = <<>> /\ dirs_version_outdated = <<>>
    /\ lookups = <<>>

DirStates == {"absent", "legacy", "broken", "ok"}
SkipLists == SUBSET {"a", "B"}
IncludeLists == {NoneList} \cup {SomeList(S) : S \in SUBSET {"a", "b"}}

\* export_spec is called on a container of environments; every environment
\* with metadata has the same shape.
InitExport ==
    /\ IdleJson
    /\ \E st \in [VenvNames -> DirStates], sh \in Shapes :
          disk = [v \in VenvNames |-> DirOf(v, st[v], sh)]
    /\ skip_list \in SkipLists
    /\ include_list \in IncludeLists
    /\ freeze \in BOOLEAN /\ freeze_all \in BOOLEAN
    /\ venv_dirs_export = <<>> /\ spec_metadata = EmptySpecMetadata
    /\ out_file = NoFile /\ freeze_i = 0
    /\ pip_freeze_dict = <<>> /\ package_path = NoSpec
    /\ first_file = NoFile /\ runs = 1
    /\ first_end = NoEnd /\ command = "export_spec"
    /\ pc = "export_spec" /\ ret = None_ /\ exc = None_ /\ printed = <<>>
    /\ venv_i = 0
    /\ IdleInstall
    /\ IdleList
    /\ IdleUninject

\* Lines 374-382: nothing installed, or start a document.
ES_Start ==
    /\ pc = "export_spec"
    /\ \E listing \in Listings(disk) :
          IF sorted(listing) = <<>>
          THEN /\ printed' = Append(printed, Msg("nothing has been installed with pipx", ""))
               /\ ret' = EXIT_CODE_OK
               /\ pc' = "done"
          ELSE /\ pc' = "export_filter"
               /\ UNCHANGED <<printed, ret>>
    /\ spec_metadata' = EmptySpecMetadata
    /\ UNCHANGED <<jsonVars, uninjectVars, disk, exc, venv_i, skip_list, include_list, freeze,
                   freeze_all, venv_dirs_export, out_file, freeze_i,
                   pip_freeze_dict, package_path, first_file, first_end, command, runs, installVars,
                   listVars>>

\* Lines 384-390: the skip / include filter.
ES_Filter ==
    /\ pc = "export_filter"
    /\ \E listing \in Listings(disk) :
          venv_dirs_export' = FilterDirs(sorted(listing), 1,
                                         skip_list, include_list, <<>>)
    /\ pc' = "export_check"
    /\ UNCHANGED <<jsonVars, uninjectVars, disk, ret, exc, printed, venv_i, skip_list, include_list,
                   freeze, freeze_all, spec_metadata, out_file, freeze_i,
                   pip_freeze_dict, package_path, first_file, first_end, command, runs, installVars,
                   listVars>>

\* Lines 392-402: abort when a candidate has no metadata.
ES_CheckMetadata ==
    /\ pc = "export_check"
    /\ LET venvs_no_metadata ==
               _venvs_with_missing_metadata(disk, venv_dirs_export)
       IN  IF _venvs_with_missing_metadata(disk, venv_dirs_export) # <<>>
           THEN /\ printed' = printed
                       \o <<Msg("Cannot export pipx spec.  The following venvs have missing metadata:", "")>>
                       \o [i \in DOMAIN venvs_no_metadata |->
                              Msg("venv", venvs_no_metadata[i])]
                       \o <<Msg("Please uninstall and install each of these venvs, or reinstall-all to fix.", "")>>
                /\ ret' = EXIT_CODE_EXPORT_MISSING_METADATA
                /\ pc' = "done"
                /\ UNCHANGED venv_i
           ELSE /\ pc' = "export_venv"
                /\ venv_i' = 1
                /\ UNCHANGED <<printed, ret>>
    /\ UNCHANGED <<jsonVars, uninjectVars, disk, exc, exportVars, installVars, listVars>>

\* Lines 404-409 for one candidate: its metadata goes into the document;
\* with a freeze flag the freeze loop starts, without one lines 420-426 do
\* nothing and the next candidate follows.
ES_ExportVenv ==
    /\ pc = "export_venv"
    /\ venv_i <= Len(venv_dirs_export)
    /\ LET name == venv_dirs_export[venv_i]
           md == ReadMetadata(disk, name)
       IN  spec_metadata' = ExportEntry(spec_metadata, name, md)
    /\ IF freeze_all \/ freeze
       THEN /\ pip_freeze_dict' = <<>>
            /\ freeze_i' = 1
            /\ pc' = "export_freeze"
            /\ UNCHANGED venv_i
       ELSE /\ venv_i' = venv_i + 1
            /\ UNCHANGED <<pip_freeze_dict, freeze_i, pc>>
    /\ UNCHANGED <<jsonVars, uninjectVars, disk, ret, exc, printed, skip_list, include_list, freeze,
                   freeze_all, venv_dirs_export, out_file, package_path,
                   first_file, first_end, command, runs, installVars, listVars>>

\* Lines 411-419 for one line of pip freeze: classify the package, then
\* store into pip_freeze_dict[package], an entry that was never created.
ES_FreezeEntry ==
    /\ pc = "export_freeze"
    /\ LET name == venv_dirs_export[venv_i]
           md == ReadMetadata(disk, name)
           lines == pip_freeze(disk, name)
       IN  /\ freeze_i <= Len(lines)
           /\ LET specifier == lines[freeze_i]
                  package == parse_pip_freeze_specifier(specifier)
                  found == _local_package_path(package, md)
              IN  IF found.raised
                  THEN /\ exc' = "PipxError"
                       /\ pc' = "raised"
                       /\ UNCHANGED <<package_path, pip_freeze_dict, freeze_i>>
                  ELSE /\ package_path' = found.value
                       /\ IF ~DictHas(pip_freeze_dict, package)
                          THEN /\ exc' = "KeyError"
                               /\ pc' = "raised"
                               /\ UNCHANGED <<pip_freeze_dict, freeze_i>>
                          ELSE /\ pip_freeze_dict' =
                                    DictSet(pip_freeze_dict, package,
                                        IF found.value # NoSpec
                                        THEN [specifier |-> found.value,
                                              local |-> TRUE]
                                        ELSE [specifier |-> specifier,
                                              local |-> FALSE])
                               /\ freeze_i' = freeze_i + 1
                               /\ UNCHANGED <<exc, pc>>
    /\ UNCHANGED <<jsonVars, uninjectVars, disk, ret, printed, venv_i, skip_list, include_list,
                   freeze, freeze_all, venv_dirs_export, spec_metadata,
                   out_file, first_file, first_end, command, runs, installVars,
                   listVars>>

\* Lines 420-426 once the freeze loop is over: the frozen map goes into the
\* document, whole (freeze_all) or cut to the user's packages (freeze).
ES_StoreFreeze ==
    /\ pc = "export_freeze"
    /\ LET name == venv_dirs_export[venv_i]
           md == ReadMetadata(disk, name)
           user_installed_packages == _get_user_installed_packages(md)
           kept == IF freeze_all THEN pip_freeze_dict
                   ELSE SelectSeq(pip_freeze_dict,
                            LAMBDA e : e.key \in Range(user_installed_packages.value))
       IN  /\ freeze_i > Len(pip_freeze(disk, name))
           /\ IF ~freeze_all /\ user_installed_packages.raised
              THEN /\ exc' = "PipxError"
                   /\ pc' = "raised"
                   /\ UNCHANGED <<spec_metadata, venv_i>>
              ELSE /\ spec_metadata' =
                        [spec_metadata EXCEPT !.venvs =
                            DictSet(@, name,
                                [DictGet(@, name) EXCEPT
                                    !.has_pip_freeze = TRUE,
                                    !.pip_freeze = kept])]
                   /\ venv_i' = venv_i + 1
                   /\ pc' = "export_venv"
                   /\ UNCHANGED exc
    /\ UNCHANGED <<jsonVars, uninjectVars, disk, ret, printed, skip_list, include_list, freeze,
                   freeze_all, venv_dirs_export, out_file, freeze_i,
                   pip_freeze_dict, package_path, first_file, first_end, command, runs, installVars,
                   listVars>>

\* Lines 428-438: write the document and return.
ES_Write ==
    /\ pc = "export_venv"
    /\ venv_i > Len(venv_dirs_export)
    /\ out_file' = [written |-> TRUE, content |-> JsonDump(spec_metadata)]
    /\ ret' = EXIT_CODE_OK
    /\ pc' = "done"
    /\ UNCHANGED <<jsonVars, uninjectVars, disk, exc, printed, venv_i, skip_list, include_list, freeze,
                   freeze_all, venv_dirs_export, spec_metadata, freeze_i,
                   pip_freeze_dict, package_path, first_file, first_end, command, runs, installVars,
                   listVars>>

\* export_spec called once more with the same arguments on the container
\* as it is, after the first call returned or raised: a new call starts
\* with fresh locals, the output file of the previous call is still there
\* until line 428 opens it for writing.
ES_CallAgain ==
    /\ command = "export_spec"
    /\ pc \in {"done", "raised"} /\ runs = 1
    /\ runs' = 2
    /\ first_file' = out_file
    /\ first_end' = [ret |-> ret, exc |-> exc, printed |-> printed,
                     completed |-> <<>>]
    /\ pc' = "export_spec" /\ ret' = None_ /\ exc' = None_ /\ printed' = <<>>
    /\ venv_i' = 0 /\ freeze_i' = 0
    /\ venv_dirs_export' = <<>> /\ spec_metadata' = EmptySpecMetadata
    /\ pip_freeze_dict' = <<>> /\ package_path' = NoSpec
    /\ UNCHANGED <<jsonVars, uninjectVars, disk, skip_list, include_list,
                   freeze, freeze_all, out_file, command, installVars,
                   listVars>>

NextExport ==
    \/ ES_CallAgain
    \/ ES_Start
    \/ ES_Filter
    \/ ES_CheckMetadata
    \/ ES_ExportVenv
    \/ ES_FreezeEntry
    \/ ES_StoreFreeze
    \/ ES_Write

SpecExport == InitExport /\ [][NextExport]_vars
-----------------------------------------------------------------------------
(* Properties of export_spec *)

\* Two dicts with the same keys and the same value under every key.
DictEq(d1, d2) ==
    /\ Len(d1) = Len(d2)
    /\ DictKeys(d1) = DictKeys(d2)
    /\ \A k \in DictKeys(d1) : DictGet(d1, k) = DictGet(d2, k)

\* The environments export_spec is asked for: in the container, not named
\* by skip_list, and named by include_list when there is one.
Candidates ==
    {v \in VenvNames :
        /\ disk[v].exists
        /\ v \notin skip_list
        /\ (include_list.is_none \/ v \in include_list.items)}

\* The candidates whose metadata is missing.
MissingMetadata ==
    {v \in Candidates : ~disk[v].has_file \/ disk[v].file.main_package.package = None_}

ExportEnded == pc \in {"done", "raised"}

\* C1: an environment is in the written document exactly when its name is
\* not in skip_list and include_list is absent or holds its name (exact
\* match, skip first); the candidate list built by the filter is that set.
C1_SkipIncludeFilter ==
    /\ pc \in {"export_check", "export_venv", "export_freeze"}
          => Range(venv_dirs_export) = Candidates
    /\ out_file.written => DictKeys(out_file.content.venvs) = Candidates

\* C1's case: skip_list = [a], include_list = [a, b], a registry of a, b, c:
\* the written document holds exactly b.
C1_Witness ==
    /\ out_file.written
    /\ skip_list = {"a"} /\ include_list = SomeList({"a", "b"})
    /\ iter_venv_dirs(disk) = {"a", "b", "c"}
    /\ DictKeys(out_file.content.venvs) = {"b"}

\* C2: when a candidate has missing metadata, export_spec ends with the
\* missing-metadata exit status, has reported every offender, and never
\* writes the output file; an environment without metadata that the filter
\* removed causes no abort (the status is returned in no other case).
C2_MissingMetadataAbort ==
    /\ MissingMetadata # {} => ~out_file.written
    /\ (ExportEnded /\ MissingMetadata # {})
          => /\ pc = "done"
             /\ ret = EXIT_CODE_EXPORT_MISSING_METADATA
             /\ \A v \in MissingMetadata : Msg("venv", v) \in Range(printed)
    /\ ret = EXIT_CODE_EXPORT_MISSING_METADATA => MissingMetadata # {}

\* C2's case: two offending candidates are both reported, a third
\* environment without metadata was filtered out and is not.
C2_Witness ==
    /\ pc = "done" /\ ret = EXIT_CODE_EXPORT_MISSING_METADATA
    /\ MissingMetadata = {"b", "c"}
    /\ {Msg("venv", "b"), Msg("venv", "c")} \subseteq Range(printed)
    /\ ~disk["a"].has_file /\ disk["a"].exists
    /\ Msg("venv", "a") \notin Range(printed)
    /\ ~out_file.written

\* C3: without a freeze flag, a non-empty registry whose candidates all
\* have metadata is exported with the success status: the document carries
\* the spec version tag and one entry per candidate, keyed by its name,
\* holding the environment's serialized metadata and no pip_freeze.
C3_PlainExport ==
    (/\ ~freeze /\ ~freeze_all
     /\ iter_venv_dirs(disk) # {}
     /\ MissingMetadata = {})
    => /\ pc # "raised"
       /\ pc = "done" =>
            /\ ret = EXIT_CODE_OK
            /\ out_file.written
            /\ out_file.content.spec_version = PIPX_SPEC_VERSION
            /\ DictKeys(out_file.content.venvs) = Candidates
            /\ Len(out_file.content.venvs) = Cardinality(Candidates)
            /\ \A v \in Candidates :
                 LET e == DictGet(out_file.content.venvs, v)
                     m == disk[v].file
                 IN  /\ ~e.has_pip_freeze
                     /\ e.metadata.main_package = m.main_package
                     /\ DictEq(e.metadata.injected_packages, m.injected_packages)
                     /\ e.metadata.venv_args = m.venv_args
                     /\ e.metadata.version = PIPX_METADATA_VERSION

\* C3's case: one main package with two injected packages, exported.
C3_Witness ==
    /\ pc = "done" /\ ret = EXIT_CODE_OK /\ out_file.written
    /\ ~freeze /\ ~freeze_all
    /\ \E v \in Candidates :
          /\ Len(disk[v].file.injected_packages) = 2
          /\ Len(DictGet(out_file.content.venvs, v).metadata.injected_packages) = 2

\* The packages the user asked for in environment v: main and injected.
UserPackages(v) ==
    {disk[v].file.main_package.package}
        \cup {disk[v].file.injected_packages[i].val.package :
                i \in DOMAIN disk[v].file.injected_packages}

\* The package's own specifier when the user installed it from a local
\* path, NoSpec otherwise.
OwnLocalPath(v, package) ==
    IF package = disk[v].file.main_package.package
    THEN IF valid_local_path(disk[v].file.main_package.package_or_url)
         THEN disk[v].file.main_package.package_or_url ELSE NoSpec
    ELSE IF \E i \in DOMAIN disk[v].file.injected_packages :
               /\ disk[v].file.injected_packages[i].val.package = package
               /\ valid_local_path(disk[v].file.injected_packages[i].val.package_or_url)
         THEN PathSpec(package) ELSE NoSpec

\* The distributions the freeze collaborator reports in environment v.
FrozenNames(v) == {pip_freeze(disk, v)[i].name : i \in DOMAIN pip_freeze(disk, v)}

FreezeRequested ==
    /\ freeze \/ freeze_all
    /\ iter_venv_dirs(disk) # {}
    /\ MissingMetadata = {}

\* C8: the frozen map written for an environment holds, in freeze mode,
\* exactly the installed distributions the user asked for, and in
\* freeze-all mode (also when both flags are set) every installed
\* distribution the freeze collaborator reports.
C8_FrozenMapKeys ==
    (ExportEnded /\ FreezeRequested)
    => /\ out_file.written
       /\ \A v \in Candidates :
            /\ DictHas(out_file.content.venvs, v)
            /\ DictGet(out_file.content.venvs, v).has_pip_freeze
            /\ DictKeys(DictGet(out_file.content.venvs, v).pip_freeze) =
                 IF freeze_all THEN FrozenNames(v)
                 ELSE FrozenNames(v) \cap UserPackages(v)

\* The freeze line export_spec classified last in the environment it is
\* freezing (0: none yet).
LastClassified ==
    IF pc = "raised" /\ exc = "KeyError" THEN freeze_i
    ELSE IF pc = "export_freeze" THEN freeze_i - 1
    ELSE 0

\* C9: for every line the freeze collaborator reports, the value chosen for
\* the package is its own local path (local = true) when the user installed
\* it from a local path and the literal freeze line (local = false)
\* otherwise, and the written frozen map stores that value under its name.
C9_FrozenEntryValues ==
    /\ LastClassified > 0
          => LET v == venv_dirs_export[venv_i]
             IN  package_path =
                    OwnLocalPath(v, pip_freeze(disk, v)[LastClassified].name)
    /\ (ExportEnded /\ FreezeRequested)
          => /\ out_file.written
             /\ \A v \in Candidates : \A i \in DOMAIN pip_freeze(disk, v) :
                 LET line == pip_freeze(disk, v)[i]
                     e == DictGet(out_file.content.venvs, v)
                 IN  (freeze_all \/ line.name \in UserPackages(v)) =>
                     /\ DictHas(e.pip_freeze, line.name)
                     /\ DictGet(e.pip_freeze, line.name) =
                          IF OwnLocalPath(v, line.name) # NoSpec
                          THEN [specifier |-> OwnLocalPath(v, line.name),
                                local |-> TRUE]
                          ELSE [specifier |-> line, local |-> FALSE]
-----------------------------------------------------------------------------
(* Collaborators of install_spec: Venv, install and inject *)

\* The version an install resolves a specifier to: the pinned one, or the
\* index's latest.
LatestVersion == "2.0"
ResolvedVersion(s) == IF s.kind = "pin" THEN s.ver ELSE LatestVersion

\* One collaborator call, as install_spec made it.
Op(op, v, package, s, pip_args, f) ==
    [op |-> op, venv |-> v, package |-> package, spec |-> s,
     pip_args |-> pip_args, force |-> f]

\* The directory exists and is not empty (install.py's test, and lines
\* 133-136, where the StopIteration of an empty directory counts as absent).
DirExists(d, v) == d[v].exists /\ ~d[v].empty

\* pip install of specifier s: the distribution s names is installed at the
\* version s resolves to, replacing an older one.
PipInstall(installed, s) ==
    Append(SelectSeq(installed, LAMBDA x : x.name # s.name),
           PinSpec(s.name, ResolvedVersion(s)))

\* Venv.create_venv: the directory exists afterwards.
create_venv(d, v) == [d EXCEPT ![v].exists = TRUE, ![v].empty = FALSE]

\* Venv._run_pip(["install"] + pip_args + [specifier])
run_pip_install(d, v, s) == [d EXCEPT ![v].installed = PipInstall(@, s)]

\* The PackageInfo venv.install_package records for specifier s.
NewPackageInfo(s, pip_args, include_apps, include_dependencies, suffix) ==
    PackageInfo(s.name, s, pip_args, include_apps, include_dependencies, <<s.name>>, <<s.name>>, <<>>, <<>>, ResolvedVersion(s), suffix)

\* pipx.commands.install.install: [raised, disk, printed]. It leaves an
\* existing directory alone unless forced; otherwise it creates the venv,
\* installs the package and writes the metadata file with the new main
\* package (a failed install removes the venv and raises PipxError).
install(d, v, package_spec, pip_args, venv_args, f, include_dependencies, suffix, ok) ==
    IF DirExists(d, v) /\ ~f
    THEN [raised |-> FALSE, disk |-> d,
          printed |-> <<Msg("already seems to be installed. Not modifying existing installation", v)>>]
    ELSE IF ~ok
    THEN [raised |-> TRUE, disk |-> [d EXCEPT ![v] = AbsentDir],
          printed |-> <<>>]
    ELSE [raised |-> FALSE,
          disk |-> [d EXCEPT ![v] =
                      [exists |-> TRUE, empty |-> FALSE, has_file |-> TRUE,
                       file |-> PipxMetadata(
                                  NewPackageInfo(package_spec, pip_args, TRUE,
                                                 include_dependencies, suffix),
                                  ReadMetadata(d, v).injected_packages,
                                  venv_args),
                       installed |-> PipInstall(d[v].installed, package_spec)]],
          printed |-> <<>>]

\* pipx.commands.inject.inject: [raised, disk]. It raises PipxError when
\* the venv does not exist or pip fails; otherwise it installs the package
\* and writes the metadata file with the injected package under its name.
inject(d, v, package_name, package_spec, pip_args, include_apps, include_dependencies, f, ok) ==
    IF ~DirExists(d, v) \/ ~ok
    THEN [raised |-> TRUE, disk |-> d]
    ELSE [raised |-> FALSE,
          disk |-> [d EXCEPT ![v] =
                      [exists |-> TRUE, empty |-> FALSE, has_file |-> TRUE,
                       file |-> [ReadMetadata(d, v) EXCEPT
                                   !.injected_packages =
                                      DictSet(@, package_name,
                                          NewPackageInfo(package_spec, pip_args,
                                              include_apps,
                                              include_dependencies, ""))],
                       installed |-> PipInstall(d[v].installed, package_spec)]]]

-----------------------------------------------------------------------------
(* install_spec's helpers *)

\* freeze_data as a dict: None counts as {} (lines 67-68).
FreezeMap(fd) == IF fd.has THEN fd.map ELSE <<>>

\* _venv_installable without the loop over the frozen specifiers.
_venv_installable_metadata_only(md, fd) ==
    /\ md.main_package.package_or_url # NoSpec
    /\ installable(md.main_package.package_or_url)
    /\ \A i \in DOMAIN md.injected_packages :
          /\ md.injected_packages[i].val.package_or_url # NoSpec
          /\ installable(md.injected_packages[i].val.package_or_url)

\* _venv_installable: every frozen, main and injected specifier parses for
\* install.
_venv_installable(md, fd) ==
    /\ \A i \in DOMAIN FreezeMap(fd) : installable(FreezeMap(fd)[i].val.specifier)
    /\ md.main_package.package_or_url # NoSpec
    /\ installable(md.main_package.package_or_url)
    /\ \A i \in DOMAIN md.injected_packages :
          /\ md.injected_packages[i].val.package_or_url # NoSpec
          /\ installable(md.injected_packages[i].val.package_or_url)

\* Lines 127-129: the frozen entries that are not user-requested packages.
freeze_dep_data(md, fd_map) ==
    SelectSeq(fd_map,
        LAMBDA e : e.key \notin Range(_get_user_installed_packages(md).value))

\* The pip installs of lines 161-167 over deps[i..].
RECURSIVE InstallDeps(_, _, _, _)
InstallDeps(d, v, deps, i) ==
    IF i > Len(deps) THEN d
    ELSE InstallDeps(run_pip_install(d, v, deps[i].val.specifier), v, deps,
                     i + 1)

\* _unfreeze_install_deps: [raised, disk, ops, printed].
_unfreeze_install_deps(d, v, md, fd_map, f) ==
    LET deps == freeze_dep_data(md, fd_map)
    IN  IF _get_user_installed_packages(md).raised
        THEN [raised |-> TRUE, disk |-> d, ops |-> <<>>, printed |-> <<>>]
        ELSE IF deps = <<>>
        THEN [raised |-> FALSE, disk |-> d, ops |-> <<>>, printed |-> <<>>]
        ELSE IF DirExists(d, v) /\ ~f
        THEN [raised |-> FALSE, disk |-> d, ops |-> <<>>,
              printed |-> <<Msg("already seems to be installed. Not modifying existing installation", v)>>]
        ELSE [raised |-> FALSE,
              disk |-> InstallDeps(create_venv(d, v), v, deps, 1),
              ops |-> <<Op("create_venv", v, "", NoSpec,
                           md.main_package.pip_args, f)>>
                      \o [i \in DOMAIN deps |->
                            Op("pip_install", v, deps[i].key,
                               deps[i].val.specifier,
                               md.main_package.pip_args, f)],
              printed |->
                 (IF DirExists(d, v)
                  THEN <<Msg("Installing to existing directory", v)>>
                  ELSE <<>>)
                 \o (IF ~_pip_args_all_same(md)
                     THEN <<Msg("WARNING pip arguments for main package differ with pip arguments for one or more injected packages", v)>>
                     ELSE <<>>)]

\* _restore_metadata_after_unfreeze without line 174's read(): the patch is
\* applied to the snapshot the Venv object took when it was constructed.
_restore_metadata_after_unfreeze_no_read(d, v, md) ==
    LET read == venv.pipx_metadata
    IN  [read EXCEPT
            !.main_package =
                _package_info_modify_package_or_url_(
                    read.main_package, md.main_package.package_or_url),
            !.injected_packages =
                [i \in DOMAIN read.injected_packages |->
                    [key |-> read.injected_packages[i].key,
                     val |-> _package_info_modify_package_or_url_(
                                read.injected_packages[i].val,
                                read.injected_packages[i].val.package_or_url)]]]

\* _restore_metadata_after_unfreeze: the metadata written back. The file is
\* read again, the main package gets the document's package_or_url, every
\* injected package keeps the package_or_url it was read with.
_restore_metadata_after_unfreeze(d, v, md) ==
    LET read == ReadMetadata(d, v)
    IN  [read EXCEPT
            !.main_package =
                _package_info_modify_package_or_url_(
                    read.main_package, md.main_package.package_or_url),
            !.injected_packages =
                [i \in DOMAIN read.injected_packages |->
                    [key |-> read.injected_packages[i].key,
                     val |-> _package_info_modify_package_or_url_(
                                read.injected_packages[i].val,
                                read.injected_packages[i].val.package_or_url)]]]

\* PipxMetadata.write(): the venv's metadata file holds m.
WriteMetadata(d, v, m) == [d EXCEPT ![v].has_file = TRUE, ![v].file = m]
-----------------------------------------------------------------------------
(* Inputs of install_spec: spec documents and target containers *)

\* The injected packages of a document: the first n names, in either order.
InjectOrders ==
    UNION {{[i \in 1..n |-> InjectNames[i]],
            [i \in 1..n |-> InjectNames[n + 1 - i]]} : n \in 0..MaxInjected}

\* What is wrong with an environment of a document, if anything.
Flaws == {"none", "bad_main", "bad_injected", "bad_frozen",
          "null_package", "null_spec"}

DocShapes ==
    {sh \in [inj : InjectOrders, args_differ : BOOLEAN,
             frozen : {"none", "user", "all"}, deps : 0..MaxDeps,
             flaw : Flaws] :
        /\ sh.args_differ => sh.inj # <<>>
        /\ (sh.frozen = "all") <=> (sh.deps > 0)
        /\ sh.flaw = "bad_injected" => sh.inj # <<>>
        /\ sh.flaw = "bad_frozen" => sh.frozen # "none"}

\* The metadata a document holds for environment v of shape sh.
DocMetadata(v, sh) ==
    PipxMetadata(
        [InstalledInfo(v, IF sh.flaw = "bad_main" THEN BadPathSpec(v)
                          ELSE IF sh.flaw = "null_spec" THEN NoSpec
                          ELSE NameSpec(v),
                       <<>>, TRUE)
            EXCEPT !.package = IF sh.flaw = "null_package" THEN None_ ELSE @],
        [i \in DOMAIN sh.inj |->
            [key |-> sh.inj[i],
             val |-> InstalledInfo(sh.inj[i],
                        IF sh.flaw = "bad_injected" /\ i = Len(sh.inj)
                        THEN BadPathSpec(sh.inj[i]) ELSE NameSpec(sh.inj[i]),
                        IF sh.args_differ THEN <<"--pre">> ELSE <<>>,
                        FALSE)]],
        <<>>)

\* The frozen map a document holds for environment v of shape sh: a pin for
\* the main package, every injected package and sh.deps dependencies, in
\* key order; the flaw "bad_frozen" makes the last entry a local path that
\* does not exist here.
DocFrozenNames(v, sh) ==
    Sorted({v} \cup Range(sh.inj) \cup {DepNames[i] : i \in 1..sh.deps})

DocFreeze(v, sh) ==
    [i \in DOMAIN DocFrozenNames(v, sh) |->
        [key |-> DocFrozenNames(v, sh)[i],
         val |-> IF sh.flaw = "bad_frozen" /\ i = Len(DocFrozenNames(v, sh))
                 THEN [specifier |-> BadPathSpec(DocFrozenNames(v, sh)[i]),
                       local |-> TRUE]
                 ELSE [specifier |-> PinSpec(DocFrozenNames(v, sh)[i],
                                             InstalledVersion),
                       local |-> FALSE]]]

DocEntry(v, sh) ==
    [key |-> v,
     val |-> [metadata |-> to_dict(DocMetadata(v, sh)),
              has_pip_freeze |-> sh.frozen # "none",
              pip_freeze |-> IF sh.frozen = "none" THEN <<>>
                             ELSE DocFreeze(v, sh)]]

PlainShape == [inj |-> <<>>, args_differ |-> FALSE, frozen |-> "none",
               deps |-> 0, flaw |-> "none"]

\* A second environment of the document, after the first: none, a plain
\* one, or one whose main specifier cannot be installed.
SecondEntries ==
    {<<>>, <<DocEntry("b", PlainShape)>>,
     <<DocEntry("b", [PlainShape EXCEPT !.flaw = "bad_main"])>>}

\* What the target container holds for an environment before install_spec:
\* nothing, an empty directory, or an earlier install of it with or without
\* an injected package.
TargetStates == {"absent", "empty", "main", "injected"}

TargetDir(v, state) ==
    IF state = "absent" THEN AbsentDir
    ELSE IF state = "empty" THEN EmptyDir
    ELSE InstalledDir(v, [main |-> "name",
                          inj |-> IF state = "injected" THEN <<"name">>
                                  ELSE <<>>,
                          deps |-> 0])

InitInstall ==
    /\ IdleJson
    /\ \E sh \in DocShapes, second \in SecondEntries :
          in_file = [spec_version |-> PIPX_SPEC_VERSION,
                     venvs |-> <<DocEntry("a", sh)>> \o second]
    /\ \E st \in [{"a"} -> TargetStates], stb \in {"absent", "main"} :
          disk = [v \in VenvNames |->
                    IF v = "a" THEN TargetDir(v, st[v])
                    ELSE IF v = "b" THEN TargetDir(v, stb)
                    ELSE AbsentDir]
    /\ disk_before = disk
    /\ force \in BOOLEAN
    /\ venv_metadata = EmptyMetadata
    /\ freeze_data = [has |-> FALSE, map |-> <<>>]
    /\ venv = [pipx_metadata |-> EmptyMetadata]
    /\ main_package_or_url = NoSpec /\ install_force = FALSE
    /\ inject_i = 0 /\ ops = <<>>
    /\ pc = "install_spec" /\ ret = None_ /\ exc = None_ /\ printed = <<>>
    /\ venv_i = 1
    /\ IdleExport
    /\ IdleList
    /\ IdleUninject

-----------------------------------------------------------------------------
(* install_spec *)

VenvName == in_file.venvs[venv_i].key

\* Lines 294-299 and 207-219 for the next environment of the document:
\* rebuild its metadata, refuse a null main package, construct the Venv
\* (which reads the target's metadata file), and skip the environment when
\* a specifier is not installable.
IS_BeginVenv ==
    /\ pc = "install_spec"
    /\ venv_i <= Len(in_file.venvs)
    /\ LET entry == in_file.venvs[venv_i].val
           md == from_dict(entry.metadata)
           fd == [has |-> entry.has_pip_freeze, map |-> entry.pip_freeze]
       IN  /\ venv_metadata' = md
           /\ freeze_data' = fd
           /\ IF \/ md.main_package.package_or_url = NoSpec
                 \/ md.main_package.package = None_
              THEN /\ exc' = "PipxError"
                   /\ pc' = "raised"
                   /\ UNCHANGED <<venv, printed, venv_i, main_package_or_url,
                                  install_force>>
              ELSE /\ venv' = [pipx_metadata |-> ReadMetadata(disk, VenvName)]
                   /\ IF ~_venv_installable(md, fd)
                      THEN /\ printed' = Append(printed,
                                            Msg("Cannot install", VenvName))
                           /\ venv_i' = venv_i + 1
                           /\ UNCHANGED <<pc, exc, main_package_or_url,
                                          install_force>>
                      ELSE /\ IF fd.has
                              THEN /\ pc' = "install_unfreeze"
                                   /\ UNCHANGED <<main_package_or_url,
                                                  install_force>>
                              ELSE /\ main_package_or_url' =
                                         md.main_package.package_or_url
                                   /\ install_force' = force
                                   /\ pc' = "install_main"
                           /\ UNCHANGED <<printed, venv_i, exc>>
    /\ UNCHANGED <<jsonVars, uninjectVars, disk, ret, exportVars, listVars, in_file, disk_before,
                   force, inject_i, ops>>

\* Lines 221-228: with freeze data, the main package's frozen specifier is
\* looked up and the dependencies are installed first.
IS_Unfreeze ==
    /\ pc = "install_unfreeze"
    /\ IF ~DictHas(freeze_data.map, venv_metadata.main_package.package)
       THEN /\ exc' = "KeyError"
            /\ pc' = "raised"
            /\ UNCHANGED <<disk, ops, printed, main_package_or_url,
                           install_force>>
       ELSE LET r == _unfreeze_install_deps(disk, VenvName, venv_metadata,
                                            freeze_data.map, force)
            IN  /\ main_package_or_url' =
                      DictGet(freeze_data.map,
                              venv_metadata.main_package.package).specifier
                /\ IF r.raised
                   THEN /\ exc' = "PipxError"
                        /\ pc' = "raised"
                        /\ UNCHANGED <<disk, ops, printed, install_force>>
                   ELSE /\ disk' = r.disk
                        /\ ops' = ops \o r.ops
                        /\ printed' = printed \o r.printed
                        /\ install_force' = TRUE
                        /\ pc' = "install_main"
                        /\ UNCHANGED exc
    /\ UNCHANGED <<jsonVars, uninjectVars, ret, venv_i, exportVars, listVars, in_file, disk_before,
                   force, venv_metadata,
                   freeze_data, venv, inject_i>>

\* Lines 233-246: install the main package; the installer may fail.
IS_InstallMain ==
    /\ pc = "install_main"
    /\ \E ok \in BOOLEAN :
         LET r == install(disk, VenvName, main_package_or_url,
                          venv_metadata.main_package.pip_args,
                          venv_metadata.venv_args, install_force,
                          venv_metadata.main_package.include_dependencies,
                          venv_metadata.main_package.suffix, ok)
         IN  /\ ops' = Append(ops, Op("install", VenvName,
                                      main_package_or_url.name,
                                      main_package_or_url,
                                      venv_metadata.main_package.pip_args,
                                      install_force))
             /\ disk' = r.disk
             /\ printed' = printed \o r.printed
             /\ IF r.raised
                THEN /\ exc' = "PipxError"
                     /\ pc' = "raised"
                     /\ UNCHANGED inject_i
                ELSE /\ pc' = "install_inject"
                     /\ inject_i' = 1
                     /\ UNCHANGED exc
    /\ UNCHANGED <<jsonVars, uninjectVars, ret, venv_i, exportVars, listVars, in_file, disk_before,
                   force, venv_metadata,
                   freeze_data, venv, main_package_or_url, install_force>>

\* Lines 249-275 for one injected package of the Venv object's metadata.
IS_Inject ==
    /\ pc = "install_inject"
    /\ inject_i <= Len(venv.pipx_metadata.injected_packages)
    /\ LET injected_name == venv.pipx_metadata.injected_packages[inject_i].key
           injected_package == venv.pipx_metadata.injected_packages[inject_i].val
       IN  IF \/ injected_package.package_or_url = NoSpec
              \/ injected_package.package = None_
           THEN /\ exc' = "PipxError"
                /\ pc' = "raised"
                /\ UNCHANGED <<disk, ops, inject_i>>
           ELSE IF freeze_data.has
                   /\ ~DictHas(freeze_data.map, injected_package.package)
           THEN /\ exc' = "KeyError"
                /\ pc' = "raised"
                /\ UNCHANGED <<disk, ops, inject_i>>
           ELSE \E ok \in BOOLEAN :
                LET injected_package_or_url ==
                        IF freeze_data.has
                        THEN DictGet(freeze_data.map,
                                     injected_package.package).specifier
                        ELSE injected_package.package_or_url
                    r == inject(disk, VenvName, injected_name,
                                injected_package_or_url,
                                injected_package.pip_args,
                                injected_package.include_apps,
                                injected_package.include_dependencies,
                                force, ok)
                IN  /\ ops' = Append(ops, Op("inject", VenvName,
                                             injected_name,
                                             injected_package_or_url,
                                             injected_package.pip_args,
                                             force))
                    /\ disk' = r.disk
                    /\ IF r.raised
                       THEN /\ exc' = "PipxError"
                            /\ pc' = "raised"
                            /\ UNCHANGED inject_i
                       ELSE /\ inject_i' = inject_i + 1
                            /\ UNCHANGED <<exc, pc>>
    /\ UNCHANGED <<jsonVars, uninjectVars, ret, printed, venv_i, exportVars, listVars, in_file, disk_before,
                   force,
                   venv_metadata, freeze_data, venv, main_package_or_url,
                   install_force>>

\* Lines 277-278 after the injected loop: with freeze data the metadata
\* file is rewritten; then the next environment of the document follows.
IS_EndVenv ==
    /\ pc = "install_inject"
    /\ inject_i > Len(venv.pipx_metadata.injected_packages)
    /\ IF freeze_data.has
       THEN LET restored == _restore_metadata_after_unfreeze(
                                disk, VenvName, venv_metadata)
            IN  /\ venv' = [pipx_metadata |-> restored]
                /\ disk' = WriteMetadata(disk, VenvName, restored)
       ELSE UNCHANGED <<venv, disk>>
    /\ venv_i' = venv_i + 1
    /\ pc' = "install_spec"
    /\ UNCHANGED <<jsonVars, uninjectVars, ret, exc, printed, exportVars, listVars, in_file, disk_before,
                   force,
                   venv_metadata, freeze_data, main_package_or_url,
                   install_force, inject_i, ops>>

\* Line 310: every environment of the document was visited.
IS_Return ==
    /\ pc = "install_spec"
    /\ venv_i > Len(in_file.venvs)
    /\ ret' = EXIT_CODE_OK
    /\ pc' = "done"
    /\ UNCHANGED <<jsonVars, uninjectVars, disk, exc, printed, venv_i, exportVars, installVars, listVars>>

NextInstall ==
    \/ IS_BeginVenv
    \/ IS_Unfreeze
    \/ IS_InstallMain
    \/ IS_Inject
    \/ IS_EndVenv
    \/ IS_Return

SpecInstall == InitInstall /\ [][NextInstall]_vars
-----------------------------------------------------------------------------
(* Properties of install_spec *)

DocVenvs == DictKeys(in_file.venvs)
DocMetadataOf(v) == from_dict(DictGet(in_file.venvs, v).metadata)
DocHasFreeze(v) == DictGet(in_file.venvs, v).has_pip_freeze
DocFreezeOf(v) == DictGet(in_file.venvs, v).pip_freeze

\* The collaborator calls made for environment v, in order.
OpsOf(v) == SelectSeq(ops, LAMBDA o : o.venv = v)
OpsOfKind(v, kind) == SelectSeq(ops, LAMBDA o : o.venv = v /\ o.op = kind)

\* install_spec went through environment v to the end of
\* _install_from_metadata without skipping it.
Completed(v) ==
    /\ \E k \in DOMAIN in_file.venvs : k < venv_i /\ in_file.venvs[k].key = v
    /\ Msg("Cannot install", v) \notin Range(printed)

\* The names the user asked for in the document's environment v.
DocUserPackages(v) ==
    {DocMetadataOf(v).main_package.package}
        \cup {DocMetadataOf(v).injected_packages[i].val.package :
                i \in DOMAIN DocMetadataOf(v).injected_packages}

\* C4: once install_spec has finished an environment that has freeze data,
\* the metadata on disk holds, for the main package and for every injected
\* package, the package_or_url of the document's metadata, not the pin.
C4_OriginalSpecifiersRestored ==
    \A v \in DocVenvs :
        (Completed(v) /\ DocHasFreeze(v)) =>
            /\ disk[v].file.main_package.package_or_url =
                  DocMetadataOf(v).main_package.package_or_url
            /\ \A i \in DOMAIN disk[v].file.injected_packages :
                 LET e == disk[v].file.injected_packages[i]
                 IN  DictHas(DocMetadataOf(v).injected_packages, e.key) =>
                        e.val.package_or_url =
                          DictGet(DocMetadataOf(v).injected_packages,
                                  e.key).package_or_url

\* C5: rebuilding an environment into an empty target, the injects made are
\* exactly the document's injected packages, in their order, every one
\* after the main install, and the target ends with one record per package.
C5_InjectsFollowDocument ==
    \A v \in DocVenvs :
        (Completed(v) /\ ~disk_before[v].exists) =>
            LET injects == OpsOfKind(v, "inject")
                wanted == DocMetadataOf(v).injected_packages
            IN  /\ [i \in DOMAIN injects |-> injects[i].package] =
                      [i \in DOMAIN wanted |-> wanted[i].key]
                /\ \A i, j \in DOMAIN ops :
                      (ops[i].venv = v /\ ops[j].venv = v
                       /\ ops[i].op = "install" /\ ops[j].op = "inject")
                      => i < j
                /\ DictKeys(disk[v].file.injected_packages) = DictKeys(wanted)

\* C6: with freeze data, the main package is installed and every injected
\* package of the document is injected from its frozen specifier, and the
\* install and every inject are called with force set, whatever the caller
\* passed.
C6_FrozenInstallsForced ==
    \A v \in DocVenvs :
        DocHasFreeze(v) =>
            /\ \A i \in DOMAIN ops :
                  (ops[i].venv = v /\ ops[i].op \in {"install", "inject"}) =>
                      /\ ops[i].force = TRUE
                      /\ ops[i].spec =
                            DictGet(DocFreezeOf(v), ops[i].package).specifier
            /\ Completed(v) =>
                  /\ Len(OpsOfKind(v, "install")) = 1
                  /\ {OpsOfKind(v, "inject")[i].package :
                         i \in DOMAIN OpsOfKind(v, "inject")} =
                     DictKeys(DocMetadataOf(v).injected_packages)

\* The frozen entries of the document's environment v that are not packages
\* the user asked for.
DocDeps(v) ==
    SelectSeq(DocFreezeOf(v), LAMBDA e : e.key \notin DocUserPackages(v))

DocArgsDiffer(v) ==
    \E i \in DOMAIN DocMetadataOf(v).injected_packages :
        DocMetadataOf(v).injected_packages[i].val.pip_args #
            DocMetadataOf(v).main_package.pip_args

ArgsWarning(v) ==
    Msg("WARNING pip arguments for main package differ with pip arguments for one or more injected packages", v)

MainInstallCalled(v) == OpsOfKind(v, "install") # <<>>

\* C7: with freeze data, every frozen entry that is not a
\* user-requested package is installed with the main package's installer
\* arguments before the main install, and a warning is recorded when an
\* injected package's installer arguments differ from the main package's.
C7_DepsInstalledFirst ==
    \A v \in DocVenvs :
        (DocHasFreeze(v) /\ MainInstallCalled(v)) =>
            LET pips == OpsOfKind(v, "pip_install")
            IN  /\ [i \in DOMAIN pips |-> pips[i].spec] =
                      [i \in DOMAIN DocDeps(v) |-> DocDeps(v)[i].val.specifier]
                /\ \A i \in DOMAIN pips :
                      pips[i].pip_args = DocMetadataOf(v).main_package.pip_args
                /\ DocArgsDiffer(v) => ArgsWarning(v) \in Range(printed)

\* Some specifier of the document's environment v does not parse for
\* install: the main one, an injected one, or a frozen one.
DocUninstallable(v) ==
    \/ /\ DocMetadataOf(v).main_package.package_or_url # NoSpec
       /\ ~installable(DocMetadataOf(v).main_package.package_or_url)
    \/ \E i \in DOMAIN DocMetadataOf(v).injected_packages :
          LET s == DocMetadataOf(v).injected_packages[i].val.package_or_url
          IN  s # NoSpec /\ ~installable(s)
    \/ /\ DocHasFreeze(v)
       /\ \E i \in DOMAIN DocFreezeOf(v) :
             ~installable(DocFreezeOf(v)[i].val.specifier)

\* C10: when the main, an injected or a frozen specifier of an environment
\* is not installable, install_spec makes no environment-creation, install
\* or inject call for it and leaves its directory as it was, and once it
\* has gone past the environment the failure has been reported.
C10_UninstallableSkipped ==
    \A k \in DOMAIN in_file.venvs :
        LET v == in_file.venvs[k].key
        IN  DocUninstallable(v) =>
              /\ OpsOf(v) = <<>>
              /\ disk[v] = disk_before[v]
              /\ k < venv_i => Msg("Cannot install", v) \in Range(printed)

\* C10's case: the first environment has a frozen specifier that is not
\* installable and was skipped with a report, the second was installed.
C10_Witness ==
    /\ pc = "done"
    /\ DocUninstallable("a")
    /\ installable(DocMetadataOf("a").main_package.package_or_url)
    /\ DocMetadataOf("a").injected_packages # <<>>
    /\ \A i \in DOMAIN DocMetadataOf("a").injected_packages :
          installable(DocMetadataOf("a").injected_packages[i].val.package_or_url)
    /\ Msg("Cannot install", "a") \in Range(printed)
    /\ OpsOf("a") = <<>>
    /\ DictHas(in_file.venvs, "b") /\ OpsOf("b") # <<>>

\* C11: when install_spec returns, its exit status is the success status
\* only if no environment of the document was uninstallable (every
\* environment was installed); with an uninstallable environment it is the
\* generic failure status.
C11_ExitStatusReportsFailure ==
    pc = "done" =>
        (ret = EXIT_CODE_OK <=> \A v \in DocVenvs : ~DocUninstallable(v))

\* install_spec has begun processing the k-th environment of the document.
Attempted(k) == k < venv_i \/ (k = venv_i /\ pc # "install_spec")

\* C12: a failure while processing one environment (a failing installer, a
\* null package or package_or_url) aborts only that environment: when
\* install_spec has ended, every environment of the document was attempted.
C12_FailureAbortsOneVenv ==
    pc \in {"done", "raised"} =>
        \A k \in DOMAIN in_file.venvs : Attempted(k)
-----------------------------------------------------------------------------
(* list_command: version lookups (list_packages.py) *)

\* packaging.version.Version(s) for a string s: the version as a number, 0
\* when s is not a valid version (InvalidVersion).
Version(s) ==
    CASE s = "1.0" -> 1
      [] s = "2.0" -> 2
      [] s = "3.0" -> 3
      [] OTHER -> 0

\* max of a non-empty set of numbers
Max(S) == CHOOSE x \in S : \A y \in S : y <= x

\* list.index(x): the first position of x, 0 when x is absent (ValueError)
ListIndex(l, x) ==
    IF \E i \in DOMAIN l : l[i] = x
    THEN CHOOSE i \in DOMAIN l : l[i] = x /\ \A j \in 1..(i - 1) : l[j] # x
    ELSE 0

\* The timeout every lookup of list_packages.py passes to the index client.
LOOKUP_TIMEOUT == "10.0"

\* What a package index does with one request: it stays silent past any
\* timeout, it has no page for the project, or it serves a page of
\* packages; the version of a package is a string, or None when the index
\* client could not read one from the file name.
Answers ==
    {[kind |-> "silent", versions |-> <<>>],
     [kind |-> "nopage", versions |-> <<>>],
     [kind |-> "page", versions |-> <<"bad">>],
     [kind |-> "page", versions |-> <<"1.0">>],
     [kind |-> "page", versions |-> <<"2.0", "1.0", "bad">>],
     [kind |-> "page", versions |-> <<None_>>],
     [kind |-> "page", versions |-> <<"1.0", None_>>],
     [kind |-> "page", versions |-> <<None_, "2.0">>]}

\* Version(package_instance.version) comes to a version that is None:
\* packaging raises TypeError, which is no InvalidVersion.
VersionOfNone(answer) ==
    /\ answer.kind = "page"
    /\ \E i \in DOMAIN answer.versions : answer.versions[i] = None_

\* One request to an index, as the code made it.
Lookup(fn, package_name, index_url, timeout) ==
    [fn |-> fn, package |-> package_name, index_url |-> index_url,
     timeout |-> timeout]

\* The lines a latest_version_from_index prints: the index it asks, and the
\* time the request took unless the request timed out (lines 39 and 46).
LookupLines(index_url, answer) ==
    <<Msg("PyPISimple using:", index_url)>>
        \o (IF answer.kind = "silent" THEN <<>>
            ELSE <<Msg("PyPISimple elapsed:", "")>>)

\* latest_version_from_index: [raised, value, lookups, printed]; value 0 is
\* None. A silent index raises ReadTimeout after the timeout, which is
\* caught; invalid version strings are skipped (InvalidVersion is caught);
\* a version that is None ends the call with TypeError (line 54).
latest_version_from_index(package_name, index_url, answer) ==
    LET valid == {Version(answer.versions[i]) : i \in DOMAIN answer.versions}
                    \ {0}
    IN  [raised |-> IF VersionOfNone(answer) THEN "TypeError" ELSE None_,
         value |-> IF answer.kind = "silent" THEN 0
                   ELSE IF answer.kind = "nopage" THEN 0
                   ELSE IF VersionOfNone(answer) THEN 0
                   ELSE IF valid # {} THEN Max(valid)
                   ELSE 0,
         lookups |-> <<Lookup("list_packages.latest_version_from_index",
                              package_name, index_url, LOOKUP_TIMEOUT)>>,
         printed |-> LookupLines(index_url, answer)]

\* get_latest_version without the test of lines 97-105: every specifier is
\* looked up by package name.
get_latest_version_lookup_all(package_metadata, pip_config_index_url, pip_config_extra_index_urls, answer) ==
    IF package_metadata.package_or_url = NoSpec
    THEN [raised |-> "PipxError", value |-> 0, lookups |-> <<>>,
          printed |-> <<>>]
    ELSE LET r == latest_version_from_index(package_metadata.package,
                                            pip_config_index_url, answer)
         IN  [raised |-> r.raised, value |-> r.value, lookups |-> r.lookups,
              printed |-> r.printed]

\* get_latest_version: [raised, value, lookups, printed]; value 0 is None.
\* The local extra_index_urls stays empty, so one index is asked; what is
\* printed is what the lookup prints, and what the lookup raises leaves
\* get_latest_version too.
get_latest_version(package_metadata, pip_config_index_url, pip_config_extra_index_urls, answer) ==
    IF package_metadata.package_or_url = NoSpec
    THEN [raised |-> "PipxError", value |-> 0, lookups |-> <<>>,
          printed |-> <<>>]
    ELSE IF \/ valid_url(package_metadata.package_or_url)
            \/ valid_local_path(package_metadata.package_or_url)
            \/ valid_pep508_with_url(package_metadata.package_or_url)
    THEN [raised |-> None_, value |-> 0, lookups |-> <<>>,
          printed |-> <<>>]
    ELSE LET pip_args == package_metadata.pip_args
             at == ListIndex(pip_args, "--index_url")
         IN  IF "--index-url" \in Range(pip_args) /\ at = 0
             THEN [raised |-> "ValueError", value |-> 0, lookups |-> <<>>,
          printed |-> <<>>]
             ELSE IF "--index-url" \in Range(pip_args) /\ at = Len(pip_args)
             THEN [raised |-> "IndexError", value |-> 0, lookups |-> <<>>,
          printed |-> <<>>]
             ELSE LET index_url == IF "--index-url" \in Range(pip_args)
                                   THEN pip_args[at + 1]
                                   ELSE pip_config_index_url
                      r == latest_version_from_index(package_metadata.package,
                                                     index_url, answer)
                  IN  [raised |-> r.raised, value |-> r.value,
                       lookups |-> r.lookups, printed |-> r.printed]
-----------------------------------------------------------------------------
(* list_packages and list_command (list_packages.py) *)

EXIT_CODE_LIST_PROBLEM == "EXIT_CODE_LIST_PROBLEM"

\* The problems get_package_summary can find in one environment.
ProblemChoices ==
    {NoProblems,
     VenvProblems(TRUE, FALSE, FALSE, FALSE),
     VenvProblems(FALSE, TRUE, FALSE, FALSE),
     VenvProblems(FALSE, FALSE, TRUE, FALSE),
     VenvProblems(FALSE, FALSE, FALSE, TRUE),
     VenvProblems(TRUE, TRUE, FALSE, FALSE)}

\* get_package_summary(venv_dir): the summary text of the environment and
\* the problems found in it.
get_package_summary(v, problems) ==
    [done |-> TRUE, summary |-> Msg("summary", v), problems |-> problems]

\* A task of the pool no worker has finished yet.
Pending == [done |-> FALSE, summary |-> Msg("", ""), problems |-> NoProblems]

\* The i-th item of a map that yields results as the workers finish them.
MapResult_Unordered(res, order, i) == res[order[i]]

\* The i-th item of p.map(f, dirs): the result for dirs[i], whatever the
\* order in which the workers finished.
MapResult(res, order, i) == res[i]

\* The all_venv_problems after a statement that replaces it by the
\* environment's problems.
Accumulate_Overwrite(all, venv_problems) == venv_problems

\* all_venv_problems.or_(venv_problems) (lines 176 and 190)
Accumulate(all, venv_problems) == or_(all, venv_problems)

\* Lines 300-305: the exit status of list_command.
ListStatus(all) ==
    IF any_(all) THEN EXIT_CODE_LIST_PROBLEM ELSE EXIT_CODE_OK

\* How the main package of a listed environment was specified.
ListKinds == {"name", "index_arg", "path", "url", "pep508url"}

\* An installed environment v whose main package was specified that way
\* ("index_arg": by name, with --index-url among its pip arguments).
ListDir(v, kind) ==
    [exists |-> TRUE, empty |-> FALSE, has_file |-> TRUE,
     file |-> PipxMetadata(
                InstalledInfo(v,
                    IF kind = "path" THEN PathSpec(v)
                    ELSE IF kind = "url" THEN UrlSpec(v)
                    ELSE IF kind = "pep508url" THEN Pep508UrlSpec(v)
                    ELSE NameSpec(v),
                    IF kind = "index_arg"
                    THEN <<"--index-url", "https://corp/simple/">>
                    ELSE <<>>,
                    TRUE),
                <<>>, <<>>),
     installed |-> <<PinSpec(v, InstalledVersion)>>]

PipConfigs ==
    {[index_url |-> DEFAULT_PYPI_SIMPLE_URL, extra_index_urls |-> <<>>],
     [index_url |-> "https://mirror/simple/",
      extra_index_urls |-> <<"https://extra/simple/">>]}

\* list_command is called on a container of environments with metadata:
\* a plain listing of environments installed by name, or an outdated
\* listing of environments specified in every way.
InitList ==
    /\ IdleJson
    /\ \/ /\ only_outdated = FALSE
          /\ \E present \in SUBSET VenvNames :
                disk = [v \in VenvNames |->
                          IF v \in present THEN ListDir(v, "name")
                          ELSE AbsentDir]
          /\ pip_config \in {[index_url |-> DEFAULT_PYPI_SIMPLE_URL,
                              extra_index_urls |-> <<>>]}
       \/ /\ only_outdated = TRUE
          /\ \E st \in [VenvNames -> ListKinds \cup {"absent"}] :
                disk = [v \in VenvNames |->
                          IF st[v] = "absent" THEN AbsentDir
                          ELSE ListDir(v, st[v])]
          /\ pip_config \in PipConfigs
    /\ pool \in BOOLEAN
    /\ all_dirs = <<>> /\ list_dirs = <<>> /\ results = <<>> /\ completed = <<>>
    /\ emit_i = 0 /\ all_venv_problems = NoProblems
    /\ dirs_version_unknown = <<>> /\ dirs_version_outdated = <<>>
    /\ lookups = <<>>
    /\ pc = "list_command" /\ ret = None_ /\ exc = None_ /\ printed = <<>>
    /\ venv_i = 0
    /\ IdleExport
    /\ IdleInstall
    /\ IdleUninject

\* Lines 199-209, and 277-278 without --outdated: nothing installed, or the
\* headers; then the outdated loop or the listing of every directory.
LC_Start ==
    /\ pc = "list_command"
    /\ all_dirs' = Sorted(iter_venv_dirs(disk))
    /\ IF all_dirs' = <<>>
       THEN /\ printed' = Append(printed, Msg("nothing has been installed with pipx", ""))
            /\ ret' = EXIT_CODE_OK
            /\ pc' = "done"
            /\ UNCHANGED <<venv_i, list_dirs, all_venv_problems>>
       ELSE /\ all_venv_problems' = NoProblems
            /\ IF only_outdated
               THEN /\ printed' = printed \o
                          <<Msg("venvs are in", ""),
                            Msg("apps are exposed on your $PATH at", ""),
                            Msg("get_pip_config elapsed:", "")>>
                    /\ venv_i' = 1
                    /\ pc' = "outdated_loop"
                    /\ UNCHANGED list_dirs
               ELSE /\ printed' = printed \o
                          <<Msg("venvs are in", ""),
                            Msg("apps are exposed on your $PATH at", "")>>
                    /\ list_dirs' = all_dirs'
                    /\ pc' = "list_packages"
                    /\ UNCHANGED venv_i
            /\ UNCHANGED ret
    /\ dirs_version_unknown' = <<>>
    /\ dirs_version_outdated' = <<>>
    /\ UNCHANGED <<jsonVars, uninjectVars, disk, exc, exportVars, installVars, only_outdated, pool,
                   pip_config, results, completed, emit_i, lookups>>

\* Lines 220-252 for one directory: the installed and the latest version of
\* its main package; the index answers in one of its ways. A pass that
\* does not raise prints the lookup's lines and the time it took (line 243);
\* a lookup that raises has made its request and printed its lines.
LC_CheckVersion ==
    /\ pc = "outdated_loop"
    /\ venv_i <= Len(all_dirs)
    /\ \E answer \in Answers :
         LET venv_dir == all_dirs[venv_i]
             package_metadata == ReadMetadata(disk, venv_dir).main_package
             current_version == Version(package_metadata.package_version)
             r == get_latest_version(package_metadata, pip_config.index_url,
                                     pip_config.extra_index_urls, answer)
         IN  IF current_version = 0
             THEN /\ exc' = "InvalidVersion"
                  /\ pc' = "raised"
                  /\ UNCHANGED <<venv_i, lookups, printed,
                                 dirs_version_unknown, dirs_version_outdated>>
             ELSE IF r.raised # None_
             THEN /\ exc' = r.raised
                  /\ pc' = "raised"
                  /\ lookups' = lookups \o r.lookups
                  /\ printed' = printed \o r.printed
                  /\ UNCHANGED <<venv_i, dirs_version_unknown,
                                 dirs_version_outdated>>
             ELSE /\ lookups' = lookups \o r.lookups
                  /\ printed' = printed \o r.printed
                                    \o <<Msg("get_latest_version:", "")>>
                  /\ dirs_version_unknown' =
                        IF r.value = 0
                        THEN Append(dirs_version_unknown, venv_dir)
                        ELSE dirs_version_unknown
                  /\ dirs_version_outdated' =
                        IF r.value # 0 /\ r.value > current_version
                        THEN Append(dirs_version_outdated, venv_dir)
                        ELSE dirs_version_outdated
                  /\ venv_i' = venv_i + 1
                  /\ UNCHANGED <<exc, pc>>
    /\ UNCHANGED <<jsonVars, uninjectVars, disk, ret, exportVars, installVars,
                   only_outdated, pool, pip_config, all_dirs, list_dirs,
                   results, completed, emit_i, all_venv_problems>>

\* Lines 261-274 after the loop: nothing outdated, or the listing of the
\* outdated directories.
LC_AfterLoop ==
    /\ pc = "outdated_loop"
    /\ venv_i > Len(all_dirs)
    /\ LET note == IF dirs_version_unknown # <<>>
                   THEN Msg("(Not checking git- or URL-based packages.)", "")
                   ELSE Msg("", "")
       IN  IF dirs_version_outdated = <<>>
           THEN /\ printed' = printed \o
                      <<note, Msg("No out-of-date pipx packages", "")>>
                /\ ret' = EXIT_CODE_OK
                /\ pc' = "done"
                /\ UNCHANGED list_dirs
           ELSE /\ printed' = printed \o <<note, Msg("Outdated packages:", "")>>
                /\ list_dirs' = dirs_version_outdated
                /\ pc' = "list_packages"
                /\ UNCHANGED ret
    /\ UNCHANGED <<jsonVars, uninjectVars, disk, exc, venv_i, exportVars, installVars, only_outdated,
                   pool, pip_config, all_dirs, results, completed, emit_i,
                   all_venv_problems, dirs_version_unknown,
                   dirs_version_outdated, lookups>>

\* Lines 164-166 and 180: list_packages hands dirs to the pool, or to the
\* built-in map.
LP_Start ==
    /\ pc = "list_packages"
    /\ results' = [i \in DOMAIN list_dirs |-> Pending]
    /\ completed' = <<>>
    /\ emit_i' = 1
    /\ pc' = IF pool THEN "pool_map" ELSE "seq_map"
    /\ UNCHANGED <<jsonVars, uninjectVars, disk, ret, exc, printed, venv_i, exportVars, installVars,
                   only_outdated, pool, pip_config, all_dirs, list_dirs,
                   all_venv_problems, dirs_version_unknown,
                   dirs_version_outdated, lookups>>

\* A worker of the pool finishes get_package_summary for some directory.
LP_WorkerDone ==
    /\ pc = "pool_map"
    /\ \E i \in DOMAIN results, problems \in ProblemChoices :
          /\ ~results[i].done
          /\ results' = [results EXCEPT
                            ![i] = get_package_summary(list_dirs[i], problems)]
          /\ completed' = Append(completed, i)
    /\ UNCHANGED <<jsonVars, uninjectVars, disk, pc, ret, exc, printed, venv_i, exportVars,
                   installVars, only_outdated, pool, pip_config, all_dirs,
                   list_dirs, emit_i, all_venv_problems, dirs_version_unknown,
                   dirs_version_outdated, lookups>>

\* Lines 167-176: p.map has returned (every task is finished); the loop
\* prints the next summary and accumulates its problems.
LP_PoolEmit ==
    /\ pc = "pool_map"
    /\ \A i \in DOMAIN results : results[i].done
    /\ emit_i <= Len(list_dirs)
    /\ LET r == MapResult(results, completed, emit_i)
       IN  /\ printed' = Append(printed, r.summary)
           /\ all_venv_problems' = Accumulate(all_venv_problems, r.problems)
    /\ emit_i' = emit_i + 1
    /\ UNCHANGED <<jsonVars, uninjectVars, disk, pc, ret, exc, venv_i, exportVars, installVars,
                   only_outdated, pool, pip_config, all_dirs, list_dirs,
                   results, completed, dirs_version_unknown,
                   dirs_version_outdated, lookups>>

\* Lines 181-190: the built-in map computes the next summary, the loop
\* prints it and accumulates its problems.
LP_SeqStep ==
    /\ pc = "seq_map"
    /\ emit_i <= Len(list_dirs)
    /\ \E problems \in ProblemChoices :
         LET r == get_package_summary(list_dirs[emit_i], problems)
         IN  /\ results' = [results EXCEPT ![emit_i] = r]
             /\ printed' = Append(printed, r.summary)
             /\ all_venv_problems' = Accumulate(all_venv_problems, r.problems)
    /\ completed' = Append(completed, emit_i)
    /\ emit_i' = emit_i + 1
    /\ UNCHANGED <<jsonVars, uninjectVars, disk, pc, ret, exc, venv_i, exportVars, installVars,
                   only_outdated, pool, pip_config, all_dirs, list_dirs,
                   dirs_version_unknown, dirs_version_outdated, lookups>>

\* Line 192: list_packages returns the accumulated problems.
LP_Return ==
    /\ pc \in {"pool_map", "seq_map"}
    /\ \A i \in DOMAIN results : results[i].done
    /\ emit_i > Len(list_dirs)
    /\ pc' = "list_report"
    /\ UNCHANGED <<jsonVars, uninjectVars, disk, ret, exc, printed, venv_i, exportVars, installVars,
                   listVars>>

\* Lines 280-305: one message per accumulated flag, then the exit status.
LC_Report ==
    /\ pc = "list_report"
    /\ printed' = printed
          \o (IF all_venv_problems.bad_venv_name
              THEN <<Msg("One or more packages contain out-of-date internal data installed from a previous pipx version and need to be updated.", "")>>
              ELSE <<>>)
          \o (IF all_venv_problems.invalid_interpreter
              THEN <<Msg("One or more packages have a missing python interpreter.", "")>>
              ELSE <<>>)
          \o (IF all_venv_problems.missing_metadata
              THEN <<Msg("One or more packages have a missing internal pipx metadata.", "")>>
              ELSE <<>>)
          \o (IF all_venv_problems.not_installed
              THEN <<Msg("One or more packages are not installed properly.", "")>>
              ELSE <<>>)
          \o (IF any_(all_venv_problems) THEN <<Msg("", "")>> ELSE <<>>)
    /\ ret' = ListStatus(all_venv_problems)
    /\ pc' = "done"
    /\ UNCHANGED <<jsonVars, uninjectVars, disk, exc, venv_i, exportVars, installVars, listVars>>

NextList ==
    \/ LC_Start
    \/ LC_CheckVersion
    \/ LC_AfterLoop
    \/ LP_Start
    \/ LP_WorkerDone
    \/ LP_PoolEmit
    \/ LP_SeqStep
    \/ LP_Return
    \/ LC_Report

SpecList == InitList /\ [][NextList]_vars
-----------------------------------------------------------------------------
(* Properties of list_packages and list_command *)

\* The environments whose summaries were printed so far, in print order.
SummariesPrinted ==
    LET lines == SelectSeq(printed, LAMBDA m : m.msg = "summary")
    IN  [i \in DOMAIN lines |-> lines[i].arg]

\* Sequence s keeps the order of sequence t (s is a subsequence of t).
RECURSIVE IsSubSeq(_, _)
IsSubSeq(s, t) ==
    IF s = <<>> THEN TRUE
    ELSE IF t = <<>> THEN FALSE
    ELSE IF Head(s) = Head(t) THEN IsSubSeq(Tail(s), Tail(t))
    ELSE IsSubSeq(s, Tail(t))

\* C13: with or without the worker pool, the summaries printed so far are
\* the first directories of list_packages' input, in the input's order
\* (which is the sorted registry order), one line per directory; when the
\* listing is over, every directory of the input has its summary.
C13_ListOrder ==
    /\ Len(SummariesPrinted) <= Len(list_dirs)
    /\ \A i \in DOMAIN SummariesPrinted : SummariesPrinted[i] = list_dirs[i]
    /\ IsSubSeq(list_dirs, Sorted(iter_venv_dirs(disk)))
    /\ pc \in {"list_report", "done"} => SummariesPrinted = list_dirs

\* C13's case: the pool's workers finished the third directory first and
\* the first one last; the three summaries were printed in input order.
C13_Witness ==
    /\ pc = "done" /\ pool
    /\ list_dirs = <<"a", "b", "c">>
    /\ completed = <<3, 2, 1>>
    /\ SummariesPrinted = <<"a", "b", "c">>

\* The problems found in the environments that were listed.
ListedProblems == {results[i].problems : i \in {j \in DOMAIN results : results[j].done}}

\* C14: after the listing, each flag of the accumulated problems is set
\* exactly when it was set for at least one listed environment, and
\* list_command returns the list-problem status exactly when some flag is
\* set, the success status otherwise.
C14_ProblemsAggregated ==
    /\ pc \in {"list_report", "done"} =>
         /\ all_venv_problems.bad_venv_name
               <=> \E p \in ListedProblems : p.bad_venv_name
         /\ all_venv_problems.invalid_interpreter
               <=> \E p \in ListedProblems : p.invalid_interpreter
         /\ all_venv_problems.missing_metadata
               <=> \E p \in ListedProblems : p.missing_metadata
         /\ all_venv_problems.not_installed
               <=> \E p \in ListedProblems : p.not_installed
    /\ pc = "done" =>
         /\ ret = EXIT_CODE_LIST_PROBLEM
               <=> \E p \in ListedProblems : p # NoProblems
         /\ ret # EXIT_CODE_LIST_PROBLEM => ret = EXIT_CODE_OK

\* C14's case: a bad venv name in the first environment, an invalid
\* interpreter in the second, none in the third: both flags accumulated.
C14_Witness ==
    /\ pc = "done" /\ Len(results) = 3
    /\ results[1].problems = VenvProblems(TRUE, FALSE, FALSE, FALSE)
    /\ results[2].problems = VenvProblems(FALSE, TRUE, FALSE, FALSE)
    /\ results[3].problems = NoProblems
    /\ all_venv_problems = VenvProblems(TRUE, TRUE, FALSE, FALSE)
    /\ ret = EXIT_CODE_LIST_PROBLEM
-----------------------------------------------------------------------------
(* Exporting twice: export_spec and export_json (import_export.py) *)

\* _get_venv_info: the name of a directory and its metadata as a dict.
_get_venv_info(d, v) == [key |-> v, val |-> to_dict(ReadMetadata(d, v))]

\* export_json, lines 34-58, on a container nothing else writes to during
\* the call, when the workers finish in the given order: all_venv_metadata
\* is filled in the order p.map (or map) yields, and dumped with
\* sort_keys=True. (EJ_Start, EJ_GetVenvInfo and EJ_Write are its steps.)
export_json(d, listing, order) ==
    LET dirs == sorted(listing)
        res == [i \in DOMAIN dirs |-> _get_venv_info(d, dirs[i])]
        all_venv_metadata == [i \in DOMAIN dirs |-> MapResult(res, order, i)]
    IN  IF dirs = <<>>
        THEN [ret |-> 0, file |-> NoFile,
              printed |-> <<Msg("nothing has been installed with pipx", "")>>]
        ELSE [ret |-> 0, printed |-> <<>>,
              file |-> [written |-> TRUE,
                        content |-> SortKeys(
                            [i \in DOMAIN all_venv_metadata |->
                                [key |-> all_venv_metadata[i].key,
                                 val |-> [all_venv_metadata[i].val EXCEPT
                                     !.injected_packages = SortKeys(@)]]])]]

\* The keys of a dumped dict come in sorted order.
KeysInOrder(d) == [i \in DOMAIN d |-> d[i].key] = Sorted(DictKeys(d))

\* Every dict of an export_spec document has its keys in sorted order.
DocumentInOrder(doc) ==
    /\ KeysInOrder(doc.venvs)
    /\ \A i \in DOMAIN doc.venvs :
          /\ KeysInOrder(doc.venvs[i].val.metadata.injected_packages)
          /\ KeysInOrder(doc.venvs[i].val.pip_freeze)
-----------------------------------------------------------------------------
(* The metadata restore of install_spec *)

\* Two PackageInfo records that agree on every field but package_or_url.
SameButPackageOrUrl(p, q) == [q EXCEPT !.package_or_url = p.package_or_url] = p

\* The step of lines 277-278 that rewrites the metadata file.
RestoreStep ==
    /\ pc = "install_inject" /\ pc' = "install_spec"
    /\ freeze_data.has

\* C16: the restore after a freeze-driven install finds the metadata file
\* the install and inject steps persisted, and writes back a structure that
\* differs from it in package_or_url fields only: the other fields of the
\* main record and of every injected record, the injected keys and
\* venv_args are unchanged, and nothing else of the container changes.
C16_RestoreFrame ==
    [][RestoreStep =>
          LET v == VenvName
              persisted == disk[v].file
              written == disk'[v].file
          IN  /\ disk[v].exists /\ disk[v].has_file
              /\ disk'[v].has_file
              /\ SameButPackageOrUrl(persisted.main_package,
                                     written.main_package)
              /\ written.venv_args = persisted.venv_args
              /\ Len(written.injected_packages)
                    = Len(persisted.injected_packages)
              /\ \A i \in DOMAIN persisted.injected_packages :
                    /\ written.injected_packages[i].key
                          = persisted.injected_packages[i].key
                    /\ SameButPackageOrUrl(
                          persisted.injected_packages[i].val,
                          written.injected_packages[i].val)
              /\ disk'[v].exists /\ disk'[v].installed = disk[v].installed
              /\ \A w \in VenvNames \ {v} : disk'[w] = disk[w]]_vars

\* C16's case: the first environment of the document came with freeze data,
\* the main package was installed from its frozen pin and a package was
\* injected; the restore put the document's specifier of the main package
\* back and kept the version the install recorded.
C16_Witness ==
    /\ pc = "install_spec" /\ venv_i = 2
    /\ in_file.venvs[1].val.has_pip_freeze
    /\ Cardinality({k \in DOMAIN ops : ops[k].op = "inject"}) = 1
    /\ Len(disk["a"].file.injected_packages) = 1
    /\ disk["a"].file.main_package.package_or_url
          = in_file.venvs[1].val.metadata.main_package.package_or_url
    /\ disk["a"].file.main_package.package_or_url.kind # "pin"
    /\ \E k \in DOMAIN ops :
          /\ ops[k].op = "install" /\ ops[k].spec.kind = "pin"
          /\ disk["a"].file.main_package.package_version = ops[k].spec.ver
-----------------------------------------------------------------------------
(* Freshness of packages installed from a URL or a path *)

\* The main package's specifier of environment v is a URL, a local path,
\* or a PEP 508 requirement with a URL.
NotOnAnIndex(v) ==
    LET s == ReadMetadata(disk, v).main_package.package_or_url
    IN  valid_url(s) \/ valid_local_path(s) \/ valid_pep508_with_url(s)

\* The directories the outdated loop has dealt with.
VersionChecked == {all_dirs[k] : k \in 1..(venv_i - 1)}

\* C17: for a main package specified by URL, local path or PEP 508
\* requirement with a URL, get_latest_version returns None whatever the
\* index would answer and asks no index; once the outdated loop has dealt
\* with the environment it is among the version-unknown directories and not
\* among the outdated ones.
C17_NoLookupForUrlOrPath ==
    \A v \in iter_venv_dirs(disk) :
        NotOnAnIndex(v) =>
            /\ \A answer \in Answers :
                  get_latest_version(ReadMetadata(disk, v).main_package,
                                     pip_config.index_url,
                                     pip_config.extra_index_urls, answer)
                     = [raised |-> None_, value |-> 0, lookups |-> <<>>,
                        printed |-> <<>>]
            /\ \A k \in DOMAIN lookups : lookups[k].package # v
            /\ v \notin Range(dirs_version_outdated)
            /\ v \in VersionChecked => v \in Range(dirs_version_unknown)

\* C17's case: an outdated listing of a URL, a path and a named package;
\* only the named one was looked up, and it is outdated.
C17_Witness ==
    /\ only_outdated /\ pc = "done"
    /\ ReadMetadata(disk, "a").main_package.package_or_url = UrlSpec("a")
    /\ ReadMetadata(disk, "b").main_package.package_or_url \in
          {PathSpec("b"), Pep508UrlSpec("b")}
    /\ dirs_version_unknown = <<"a", "b">>
    /\ dirs_version_outdated = <<"c">>
    /\ Len(lookups) = 1 /\ lookups[1].package = "c"
-----------------------------------------------------------------------------
(* The three index lookups: list_packages.py, simple_interface.py and      *)
(* index_simple.py                                                         *)

\* Most lookups made in one run of the lookup specification.
MaxLookups == 2

IndexUrls == {DEFAULT_PYPI_SIMPLE_URL, "https://mirror/simple/"}

\* The answers of an index, with a project page that lists no package.
LookupAnswers == Answers \cup {[kind |-> "page", versions |-> <<>>]}

\* simple_interface.latest_version_from_index: [raised, value, lookups,
\* printed]; value 0 is None. The request carries timeout=10.0 and
\* ReadTimeout is caught; the same two lines are printed (lines 62 and 69);
\* a version that is None ends the call with TypeError (line 77).
simple_interface_latest_version_from_index(package_name, index_url, answer) ==
    LET valid == {Version(answer.versions[i]) : i \in DOMAIN answer.versions}
                    \ {0}
    IN  [raised |-> IF VersionOfNone(answer) THEN "TypeError" ELSE None_,
         value |-> IF answer.kind = "silent" THEN 0
                   ELSE IF answer.kind = "nopage" THEN 0
                   ELSE IF VersionOfNone(answer) THEN 0
                   ELSE IF valid # {} THEN Max(valid)
                   ELSE 0,
         lookups |-> <<Lookup("simple_interface.latest_version_from_index",
                              package_name, index_url, "10.0")>>,
         printed |-> LookupLines(index_url, answer)]

\* index_simple.get_latest_version: [outcome, value, lookups, printed]. The
\* request carries no timeout, so a silent index is waited for without end;
\* an empty page has no packages[-1]; otherwise the version of the last
\* package of the page is taken: None, with nothing printed, when it is
\* None (lines 24-25); None, with a line printed, when it is invalid.
index_simple_get_latest_version(package_name, index_url, answer) ==
    LET last == answer.versions[Len(answer.versions)]
    IN  [outcome |-> IF answer.kind = "silent" THEN "blocked"
                     ELSE IF answer.kind = "page" /\ answer.versions = <<>>
                          THEN "IndexError"
                     ELSE "returned",
         value |-> IF answer.kind = "page" /\ answer.versions # <<>>
                      /\ last # None_
                   THEN Version(last) ELSE 0,
         printed |-> IF answer.kind = "page" /\ answer.versions # <<>>
                        /\ last # None_ /\ Version(last) = 0
                     THEN <<Msg("Latest Version is invalid: {package_latest_version_str}", "")>>
                     ELSE <<>>,
         lookups |-> <<Lookup("index_simple.get_latest_version",
                              package_name, index_url, None_)>>]

\* The pip arguments get_indexes is given, as argv tokens.
PipArgChoices ==
    {<<>>,
     <<"--index-url", "https://mirror/simple/">>,
     <<"-i", "https://mirror/simple/">>,
     <<"--index-url=https://mirror/simple/">>,
     <<"--extra-index-url", "https://corp/simple/ https://extra/simple/">>,
     <<"--index-url", "https://mirror/simple/",
       "--extra-index-url", "https://corp/simple/">>,
     <<"--verbose", "--index-url", "https://corp/simple/">>,
     <<"--index-url", "https://mirror/simple/",
       "--index-url", "https://corp/simple/">>,
     <<"--index-url">>,
     <<"--extra-index-url", "--verbose">>}

\* The destination of an option token of the parser of lines 37-39; None
\* for any other token.
OptionDest(t) ==
    CASE t \in {"--index-url", "-i", "--index-url=https://mirror/simple/"}
            -> "index_url"
      [] t = "--extra-index-url" -> "extra_index_url"
      [] OTHER -> None_

\* The value an option token carries after its "=", None without one.
InlineValue(t) ==
    IF t = "--index-url=https://mirror/simple/" THEN "https://mirror/simple/"
    ELSE None_

\* The token starts with "-": argparse never takes it as an option's value.
LooksLikeOption(t) ==
    t \in {"--index-url", "-i", "--index-url=https://mirror/simple/",
           "--extra-index-url", "--verbose"}

\* str.split() on the values of the model.
split(s) ==
    IF s = "https://corp/simple/ https://extra/simple/"
    THEN <<"https://corp/simple/", "https://extra/simple/">>
    ELSE <<s>>

\* parser.parse_known_args(pip_args) from token i on: a store option takes
\* the next token as its value, the last occurrence wins, unknown tokens are
\* left over, and an option without a value is an error.
RECURSIVE parse_known_args(_, _, _)
parse_known_args(args, i, ns) ==
    IF i > Len(args) THEN ns
    ELSE IF OptionDest(args[i]) = None_
    THEN parse_known_args(args, i + 1, ns)
    ELSE IF InlineValue(args[i]) # None_
    THEN parse_known_args(args, i + 1,
             [ns EXCEPT ![OptionDest(args[i])] = InlineValue(args[i])])
    ELSE IF i = Len(args) \/ LooksLikeOption(args[i + 1])
    THEN [ns EXCEPT !.error = TRUE]
    ELSE parse_known_args(args, i + 2,
             [ns EXCEPT ![OptionDest(args[i])] = args[i + 1]])

\* simple_interface.get_indexes, lines 32-53: [raised, value, printed]. The
\* parsed namespace is printed (line 41); an argparse error leaves the
\* program with SystemExit before that.
get_indexes(pip_args, pip_config_index_url, pip_config_extra_index_urls) ==
    LET parsed_pip_args ==
            parse_known_args(pip_args, 1,
                [index_url |-> None_, extra_index_url |-> None_,
                 error |-> FALSE])
        index_url == IF parsed_pip_args.index_url # None_
                     THEN parsed_pip_args.index_url
                     ELSE pip_config_index_url
        extra_index_urls == IF parsed_pip_args.extra_index_url # None_
                            THEN split(parsed_pip_args.extra_index_url)
                            ELSE <<>>
    IN  IF parsed_pip_args.error
        THEN [raised |-> "SystemExit", value |-> <<>>, printed |-> <<>>]
        ELSE [raised |-> None_,
              value |-> <<index_url>> \o extra_index_urls,
              printed |-> <<Msg("parsed_pip_args =",
                  [index_url |-> parsed_pip_args.index_url,
                   extra_index_url |-> parsed_pip_args.extra_index_url])>>]

\* A program is about to ask an index for the latest version of a package,
\* or to work out the indexes of some pip arguments.
InitLookup ==
    /\ IdleJson
    /\ disk = [v \in VenvNames |-> AbsentDir]
    /\ pc \in {"lookup", "get_indexes"} /\ ret = None_ /\ exc = None_ /\ printed = <<>>
    /\ venv_i = 0
    /\ IdleExport
    /\ IdleInstall
    /\ IdleList
    /\ IdleUninject

\* A call of list_packages.latest_version_from_index (lines 33-61).
LK_ListPackages ==
    /\ pc = "lookup" /\ Len(lookups) < MaxLookups
    /\ \E package_name \in VenvNames, index_url \in IndexUrls,
          answer \in LookupAnswers :
         LET r == latest_version_from_index(package_name, index_url, answer)
         IN  /\ lookups' = lookups \o r.lookups
             /\ printed' = printed \o r.printed
             /\ IF r.raised # None_
                THEN pc' = "raised" /\ exc' = r.raised /\ UNCHANGED ret
                ELSE ret' = r.value /\ UNCHANGED <<pc, exc>>
    /\ UNCHANGED <<jsonVars, uninjectVars, disk, venv_i, exportVars, installVars,
                   only_outdated, pool, pip_config, all_dirs, list_dirs,
                   results, completed, emit_i, all_venv_problems,
                   dirs_version_unknown, dirs_version_outdated>>

\* A call of simple_interface.latest_version_from_index (lines 56-84).
LK_SimpleInterface ==
    /\ pc = "lookup" /\ Len(lookups) < MaxLookups
    /\ \E package_name \in VenvNames, index_url \in IndexUrls,
          answer \in LookupAnswers :
         LET r == simple_interface_latest_version_from_index(
                      package_name, index_url, answer)
         IN  /\ lookups' = lookups \o r.lookups
             /\ printed' = printed \o r.printed
             /\ IF r.raised # None_
                THEN pc' = "raised" /\ exc' = r.raised /\ UNCHANGED ret
                ELSE ret' = r.value /\ UNCHANGED <<pc, exc>>
    /\ UNCHANGED <<jsonVars, uninjectVars, disk, venv_i, exportVars, installVars,
                   only_outdated, pool, pip_config, all_dirs, list_dirs,
                   results, completed, emit_i, all_venv_problems,
                   dirs_version_unknown, dirs_version_outdated>>

\* A call of index_simple.get_latest_version (lines 8-33).
LK_IndexSimple ==
    /\ pc = "lookup" /\ Len(lookups) < MaxLookups
    /\ \E package_name \in VenvNames, index_url \in IndexUrls,
          answer \in LookupAnswers :
         LET r == index_simple_get_latest_version(package_name, index_url,
                                                  answer)
         IN  /\ lookups' = lookups \o r.lookups
             /\ printed' = printed \o r.printed
             /\ IF r.outcome = "blocked"
                THEN pc' = "blocked" /\ UNCHANGED <<ret, exc>>
                ELSE IF r.outcome = "IndexError"
                THEN pc' = "raised" /\ exc' = "IndexError" /\ UNCHANGED ret
                ELSE ret' = r.value /\ UNCHANGED <<pc, exc>>
    /\ UNCHANGED <<jsonVars, uninjectVars, disk, venv_i, exportVars, installVars,
                   only_outdated, pool, pip_config, all_dirs, list_dirs,
                   results, completed, emit_i, all_venv_problems,
                   dirs_version_unknown, dirs_version_outdated>>

\* A call of simple_interface.get_indexes (lines 32-53).
LK_GetIndexes ==
    /\ pc = "get_indexes"
    /\ \E pip_args \in PipArgChoices, config \in PipConfigs :
         LET r == get_indexes(pip_args, config.index_url,
                              config.extra_index_urls)
         IN  /\ printed' = printed \o r.printed
             /\ IF r.raised # None_
                THEN pc' = "raised" /\ exc' = r.raised /\ UNCHANGED ret
                ELSE pc' = "done" /\ ret' = r.value /\ UNCHANGED exc
    /\ UNCHANGED <<jsonVars, uninjectVars, disk, venv_i, exportVars, installVars,
                   listVars>>

NextLookup ==
    \/ LK_ListPackages
    \/ LK_SimpleInterface
    \/ LK_IndexSimple
    \/ LK_GetIndexes

SpecLookup == InitLookup /\ [][NextLookup]_vars

\* C18: every lookup made carries a timeout, and no lookup leaves its
\* caller waiting or ends in an error: a silent index gives None.
C18_LookupsTimeOut ==
    /\ \A k \in DOMAIN lookups : lookups[k].timeout # None_
    /\ lookups # <<>> => pc \notin {"blocked", "raised"}
-----------------------------------------------------------------------------
(* install_spec without force on an existing environment *)

\* C19: without force, an environment whose directory existed when
\* install_spec began is left exactly as it was, with or without freeze
\* data in the document: no collaborator is called on it in force mode,
\* nothing is installed or injected into it and its metadata file is not
\* rewritten.
C19_ExistingTargetUntouched ==
    ~force =>
        \A v \in VenvNames :
            DirExists(disk_before, v) =>
                /\ \A k \in DOMAIN ops : ops[k].venv = v => ~ops[k].force
                /\ disk[v] = disk_before[v]
-----------------------------------------------------------------------------
(* uninject (uninject.py) *)

\* Most names in one uninject call.
MaxUninject == 2
\* Most uninject calls in a row.
MaxCalls == 2

\* packaging.utils.canonicalize_name on the names of the model: lower case
\* (none of them has a separator).
canonicalize_name(n) ==
    CASE n = "A" -> "a"
      [] n = "Pylint" -> "pylint"
      [] n = "BLACK" -> "black"
      [] OTHER -> n

\* The environment uninject is called on.
UninjectVenv == "a"

\* The names a caller can list.
DepChoices == {"a", "A", "pylint", "Pylint", "black", "BLACK", "flake8"}
DepLists == SeqsUpTo(DepChoices, MaxUninject)

\* Venv.package_metadata: the injected packages, with the main package when
\* it has a name.
package_metadata(m) ==
    DictKeys(m.injected_packages)
        \cup (IF m.main_package.package # None_
              THEN {m.main_package.package} ELSE {})

\* Venv.uninstall_package: pip uninstalls the distribution, the package
\* leaves the injected packages and the metadata file is written.
uninstall_package(d, v, m, package) ==
    LET left == [m EXCEPT !.injected_packages =
                     SelectSeq(@, LAMBDA e : e.key # package)]
    IN  [pipx_metadata |-> left,
         disk |-> [d EXCEPT ![v].installed =
                                SelectSeq(@, LAMBDA x : x.name # package),
                            ![v].has_file = TRUE,
                            ![v].file = left]]

\* uninject_dep looking the name up as the caller wrote it.
uninject_dep_raw_name(d, v, m, name) ==
    IF name = m.main_package.package
    THEN [success |-> FALSE, disk |-> d, pipx_metadata |-> m, ops |-> <<>>,
          printed |-> <<Msg("is the main package", name)>>]
    ELSE IF ~DictHas(m.injected_packages, name)
    THEN [success |-> FALSE, disk |-> d, pipx_metadata |-> m, ops |-> <<>>,
          printed |-> <<Msg("is not in the venv", name)>>]
    ELSE LET r == uninstall_package(d, v, m, name)
         IN  [success |-> TRUE, disk |-> r.disk,
              pipx_metadata |-> r.pipx_metadata,
              ops |-> <<Op("uninstall_package", v, name, NoSpec, <<>>, FALSE)>>,
              printed |-> <<Msg("uninjected package", name)>>]

\* uninject_dep, lines 13-36: [success, disk, pipx_metadata, ops, printed].
uninject_dep(d, v, m, name) ==
    LET package_name == canonicalize_name(name)
    IN  IF package_name = m.main_package.package
        THEN [success |-> FALSE, disk |-> d, pipx_metadata |-> m,
              ops |-> <<>>,
              printed |-> <<Msg("is the main package", package_name)>>]
        ELSE IF ~DictHas(m.injected_packages, package_name)
        THEN [success |-> FALSE, disk |-> d, pipx_metadata |-> m,
              ops |-> <<>>,
              printed |-> <<Msg("is not in the venv", package_name)>>]
        ELSE LET r == uninstall_package(d, v, m, package_name)
             IN  [success |-> TRUE, disk |-> r.disk,
                  pipx_metadata |-> r.pipx_metadata,
                  ops |-> <<Op("uninstall_package", v, package_name, NoSpec,
                               <<>>, FALSE)>>,
                  printed |-> <<Msg("uninjected package", package_name)>>]

\* What the container holds for the environment: nothing, an empty
\* directory, a directory without metadata, or an install with some
\* injected packages.
UninjectDirs ==
    {AbsentDir, EmptyDir, LegacyDir(UninjectVenv)}
        \cup {InstalledDir(UninjectVenv,
                           [main |-> "name", inj |-> [i \in 1..k |-> "name"],
                            deps |-> 0]) : k \in 0..MaxInjected}

InitUninject ==
    /\ IdleJson
    /\ \E dir \in UninjectDirs :
          disk = [v \in VenvNames |->
                    IF v = UninjectVenv THEN dir ELSE AbsentDir]
    /\ dependencies \in DepLists
    /\ dep_i = 0 /\ all_success = TRUE /\ calls = 1
    /\ pc = "uninject" /\ ret = None_ /\ exc = None_ /\ printed = <<>>
    /\ venv_i = 0
    /\ in_file = EmptySpecMetadata /\ force = FALSE
    /\ disk_before = disk
    /\ venv_metadata = EmptyMetadata
    /\ freeze_data = [has |-> FALSE, map |-> <<>>]
    /\ venv = [pipx_metadata |-> EmptyMetadata]
    /\ main_package_or_url = NoSpec /\ install_force = FALSE
    /\ inject_i = 0 /\ ops = <<>>
    /\ IdleExport
    /\ IdleList

\* Lines 42-53: the directory must exist and have metadata; the Venv object
\* reads the metadata file. Line 42 takes next() of the directory's entries
\* outside any try: an empty directory ends the call with StopIteration.
UJ_Start ==
    /\ pc = "uninject"
    /\ IF ~disk[UninjectVenv].exists
       THEN /\ exc' = "PipxError" /\ pc' = "raised"
            /\ UNCHANGED <<venv, dep_i, all_success>>
       ELSE IF disk[UninjectVenv].empty
       THEN /\ exc' = "StopIteration" /\ pc' = "raised"
            /\ UNCHANGED <<venv, dep_i, all_success>>
       ELSE /\ venv' = [pipx_metadata |-> ReadMetadata(disk, UninjectVenv)]
            /\ IF package_metadata(ReadMetadata(disk, UninjectVenv)) = {}
               THEN /\ exc' = "PipxError" /\ pc' = "raised"
                    /\ UNCHANGED <<dep_i, all_success>>
               ELSE /\ all_success' = TRUE
                    /\ dep_i' = 1
                    /\ pc' = "uninject_loop"
                    /\ UNCHANGED exc
    /\ UNCHANGED <<jsonVars, disk, ret, printed, venv_i, exportVars, listVars,
                   dependencies, calls, in_file, disk_before, force,
                   venv_metadata, freeze_data, main_package_or_url,
                   install_force, inject_i, ops>>

\* Lines 55-57 for one dependency.
UJ_Dep ==
    /\ pc = "uninject_loop"
    /\ dep_i <= Len(dependencies)
    /\ LET r == uninject_dep(disk, UninjectVenv, venv.pipx_metadata,
                             dependencies[dep_i])
       IN  /\ all_success' = (all_success /\ r.success)
           /\ disk' = r.disk
           /\ venv' = [pipx_metadata |-> r.pipx_metadata]
           /\ ops' = ops \o r.ops
           /\ printed' = printed \o r.printed
    /\ dep_i' = dep_i + 1
    /\ UNCHANGED <<jsonVars, pc, ret, exc, venv_i, exportVars, listVars, dependencies,
                   calls, in_file, disk_before, force, venv_metadata,
                   freeze_data, main_package_or_url, install_force, inject_i>>

\* Lines 59-62.
UJ_Return ==
    /\ pc = "uninject_loop"
    /\ dep_i > Len(dependencies)
    /\ ret' = IF all_success THEN 0 ELSE 1
    /\ pc' = "done"
    /\ UNCHANGED <<jsonVars, disk, exc, printed, venv_i, exportVars, installVars,
                   listVars, uninjectVars>>

\* uninject called once more on the environment, with other names.
UJ_CallAgain ==
    /\ pc = "done" /\ calls < MaxCalls
    /\ calls' = calls + 1
    /\ dependencies' \in DepLists
    /\ dep_i' = 0 /\ all_success' = TRUE
    /\ pc' = "uninject" /\ ret' = None_ /\ printed' = <<>>
    /\ disk_before' = disk
    /\ ops' = <<>>
    /\ UNCHANGED <<jsonVars, disk, exc, venv_i, exportVars, listVars, in_file, force,
                   venv_metadata, freeze_data, venv, main_package_or_url,
                   install_force, inject_i>>

NextUninject ==
    \/ UJ_Start
    \/ UJ_Dep
    \/ UJ_Return
    \/ UJ_CallAgain

SpecUninject == InitUninject /\ [][NextUninject]_vars
-----------------------------------------------------------------------------
(* Properties of uninject *)

\* The dependencies of this call that uninject_dep is through with.
DepsDone == 1..(IF pc \in {"uninject_loop", "done"} THEN dep_i - 1 ELSE 0)

\* The k-th dependency of this call was uninstalled.
Uninjected(k) == printed[k].msg = "uninjected package"

\* The injected keys of the environment when the call came to its k-th
\* dependency: those the call began with, less those it had removed.
InjectedAt(k) ==
    DictKeys(disk_before[UninjectVenv].file.injected_packages)
        \ {canonicalize_name(dependencies[j]) : j \in {i \in 1..(k - 1) : Uninjected(i)}}

MainPackageOf(d) == d[UninjectVenv].file.main_package

\* C20: uninject goes through every listed dependency, refused ones
\* included; a dependency is uninstalled exactly when its canonicalized name
\* is an injected key at that moment and is not the main package; the call
\* returns 0 exactly when every listed dependency was uninstalled; the main
\* package stays installed and recorded through every call.
C20_UninjectOnlyInjected ==
    /\ Len(printed) = Cardinality(DepsDone)
    /\ \A k \in DepsDone :
          /\ printed[k].arg = canonicalize_name(dependencies[k])
          /\ Uninjected(k) <=>
                /\ canonicalize_name(dependencies[k]) \in InjectedAt(k)
                /\ canonicalize_name(dependencies[k])
                      # MainPackageOf(disk_before).package
    /\ [k \in DOMAIN ops |-> ops[k].package]
          = [k \in 1..Cardinality({i \in DepsDone : Uninjected(i)}) |->
                canonicalize_name(
                    dependencies[CHOOSE i \in DepsDone :
                        /\ Uninjected(i)
                        /\ Cardinality({j \in 1..i : Uninjected(j)}) = k])]
    /\ pc = "done" =>
          /\ DepsDone = DOMAIN dependencies
          /\ ret = 0 <=> \A k \in DOMAIN dependencies : Uninjected(k)
    /\ (disk_before[UninjectVenv].exists /\ disk_before[UninjectVenv].has_file)
          => /\ MainPackageOf(disk) = MainPackageOf(disk_before)
             /\ MainPackageOf(disk).package = UninjectVenv
             /\ PinSpec(UninjectVenv, InstalledVersion)
                   \in Range(disk[UninjectVenv].installed)

\* C20's case: the main package, written in upper case, is refused first;
\* the injected package after it, also in upper case, is uninstalled all
\* the same, and the call returns 1.
C20_Witness ==
    /\ pc = "done" /\ ret = 1
    /\ dependencies = <<"A", "Pylint">>
    /\ ~Uninjected(1) /\ Uninjected(2)
    /\ DictHas(disk_before[UninjectVenv].file.injected_packages, "pylint")
    /\ ~DictHas(disk[UninjectVenv].file.injected_packages, "pylint")
    /\ PinSpec("pylint", InstalledVersion)
          \notin Range(disk[UninjectVenv].installed)
    /\ MainPackageOf(disk).package = "a"
-----------------------------------------------------------------------------
(* The index get_latest_version asks *)

\* The index URLs asked for package v so far, in order.
IndexesAsked(v) ==
    LET asked == SelectSeq(lookups, LAMBDA l : l.package = v)
    IN  [k \in DOMAIN asked |-> asked[k].index_url]

\* C21: get_latest_version never ends in an error over the installer
\* arguments; for a package with --index-url among its installer arguments
\* the lookup goes to the URL after that argument, for any other package to
\* the index URL of the pip configuration and, when that gave no version,
\* on to the configured extra index URLs.
C21_IndexUrlChosen ==
    /\ exc \notin {"ValueError", "IndexError"}
    /\ \A v \in VersionChecked :
          ~NotOnAnIndex(v) =>
              LET pip_args == ReadMetadata(disk, v).main_package.pip_args
              IN  /\ IndexesAsked(v) # <<>>
                  /\ IF "--index-url" \in Range(pip_args)
                     THEN IndexesAsked(v)[1]
                             = pip_args[ListIndex(pip_args, "--index-url") + 1]
                     ELSE /\ IndexesAsked(v)[1] = pip_config.index_url
                          /\ v \in Range(dirs_version_unknown)
                                => IndexesAsked(v) = <<pip_config.index_url>>
                                      \o pip_config.extra_index_urls
-----------------------------------------------------------------------------
(* import_export.py: export_json and install_json *)

\* What is wrong with an environment of a flat document, if anything.
JsonFlaws == {"none", "bad_main", "null_package", "null_spec"}

\* The flat documents install_json reads: venv name -> metadata, as
\* export_json writes them; environment a of some shape, then maybe b.
JsonDocs ==
    {<<[key |-> "a",
        val |-> to_dict(DocMetadata("a", [inj |-> inj, args_differ |-> FALSE,
                                          frozen |-> "none", deps |-> 0,
                                          flaw |-> flaw]))]>> \o second :
        inj \in InjectOrders, flaw \in JsonFlaws,
        second \in {<<>>,
                    <<[key |-> "b",
                       val |-> to_dict(DocMetadata("b", PlainShape))]>>}}

\* The installer succeeds or fails; a specifier that cannot be installed
\* always fails.
InstallOutcomes(s) == IF installable(s) THEN BOOLEAN ELSE {FALSE}

\* export_json or install_json is called on a container.
InitJson ==
    /\ IdleJson
    /\ \E st \in TargetStates, stb \in {"absent", "main"} :
          disk = [v \in VenvNames |->
                    IF v = "a" THEN TargetDir(v, st)
                    ELSE IF v = "b" THEN TargetDir(v, stb)
                    ELSE AbsentDir]
    /\ \/ /\ pc = "export_json"
          /\ in_file = <<>> /\ force = FALSE
          /\ pool \in BOOLEAN
       \/ /\ pc = "install_json"
          /\ in_file \in JsonDocs /\ force \in BOOLEAN
          /\ pool = FALSE
    /\ disk_before = disk
    /\ venv_metadata = EmptyMetadata
    /\ freeze_data = [has |-> FALSE, map |-> <<>>]
    /\ venv = [pipx_metadata |-> EmptyMetadata]
    /\ main_package_or_url = NoSpec /\ install_force = FALSE
    /\ inject_i = 0 /\ ops = <<>>
    /\ ret = None_ /\ exc = None_ /\ printed = <<>>
    /\ venv_i = 1
    /\ IdleExport
    /\ only_outdated = FALSE
    /\ pip_config = [index_url |-> DEFAULT_PYPI_SIMPLE_URL,
                     extra_index_urls |-> <<>>]
    /\ all_dirs = <<>> /\ list_dirs = <<>> /\ results = <<>> /\ completed = <<>>
    /\ emit_i = 0 /\ all_venv_problems = NoProblems
    /\ dirs_version_unknown = <<>> /\ dirs_version_outdated = <<>>
    /\ lookups = <<>>
    /\ IdleUninject

\* The packages another process injects while export_json runs.
ChangedPackages == {"pylint"}

\* A task of export_json's map that has not read its directory yet.
PendingInfo == [done |-> FALSE, key |-> "", val |-> to_dict(EmptyMetadata)]

\* Lines 34-39: the sorted directories of the container; with none there
\* is nothing to export.
EJ_Start ==
    /\ pc = "export_json"
    /\ \E listing \in Listings(disk) :
         LET dirs == sorted(listing)
         IN  /\ export_dirs' = dirs
             /\ export_results' = [i \in DOMAIN dirs |-> PendingInfo]
             /\ IF dirs = <<>>
                THEN /\ printed' = Append(printed,
                            Msg("nothing has been installed with pipx", ""))
                     /\ ret' = 0
                     /\ pc' = "done"
                ELSE /\ pc' = "export_json_map"
                     /\ UNCHANGED <<printed, ret>>
    /\ export_completed' = <<>>
    /\ UNCHANGED <<disk, exc, venv_i, exportVars, installVars, listVars,
                   uninjectVars>>

\* Lines 42-47: _get_venv_info reads the metadata file of one directory as
\* the disk is at that moment; the workers of the pool take the directories
\* in any order, the built-in map in turn.
EJ_GetVenvInfo ==
    /\ pc = "export_json_map"
    /\ \E i \in DOMAIN export_results :
          /\ ~export_results[i].done
          /\ pool \/ \A j \in 1..(i - 1) : export_results[j].done
          /\ export_results' =
                [export_results EXCEPT
                    ![i] = [done |-> TRUE,
                            key |-> _get_venv_info(disk, export_dirs[i]).key,
                            val |-> _get_venv_info(disk, export_dirs[i]).val]]
          /\ export_completed' = Append(export_completed, i)
    /\ UNCHANGED <<disk, pc, ret, exc, printed, venv_i, exportVars,
                   installVars, listVars, uninjectVars, export_dirs>>

\* While export_json waits for its map, another pipx process injects a
\* package into an environment of the container.
EJ_EnvChanged ==
    /\ pc = "export_json_map"
    /\ \E v \in iter_venv_dirs(disk), package \in ChangedPackages :
          /\ disk[v].has_file
          /\ ~DictHas(disk[v].file.injected_packages, package)
          /\ Len(disk[v].file.injected_packages) < MaxInjected
          /\ disk' = inject(disk, v, package, NameSpec(package),
                            <<>>, FALSE, FALSE, FALSE, TRUE).disk
    /\ UNCHANGED <<pc, ret, exc, printed, venv_i, exportVars, installVars,
                   listVars, uninjectVars, jsonVars>>

\* Lines 43-58: the map has yielded every result; all_venv_metadata is
\* filled in the order of dirs and dumped with sort_keys=True.
EJ_Write ==
    /\ pc = "export_json_map"
    /\ \A i \in DOMAIN export_results : export_results[i].done
    /\ LET all_venv_metadata ==
               [i \in DOMAIN export_dirs |->
                   MapResult(export_results, export_completed, i)]
       IN  out_file' =
               [written |-> TRUE,
                content |-> SortKeys(
                    [i \in DOMAIN all_venv_metadata |->
                        [key |-> all_venv_metadata[i].key,
                         val |-> [all_venv_metadata[i].val EXCEPT
                                     !.injected_packages = SortKeys(@)]]])]
    /\ ret' = 0
    /\ pc' = "done"
    /\ UNCHANGED <<disk, exc, printed, venv_i, skip_list, include_list,
                   freeze, freeze_all, venv_dirs_export, spec_metadata,
                   freeze_i, pip_freeze_dict, package_path, first_file, first_end, command, runs,
                   installVars, listVars, uninjectVars, jsonVars>>

\* Lines 127-133 and 72-77 for the next environment of the document: its
\* metadata is rebuilt, a null main specifier is refused, and the Venv
\* object is constructed (which reads the target's metadata file).
IJ_BeginVenv ==
    /\ pc = "install_json"
    /\ venv_i <= Len(in_file)
    /\ venv_metadata' = from_dict(in_file[venv_i].val)
    /\ IF in_file[venv_i].val.main_package.package_or_url = NoSpec
       THEN /\ exc' = "PipxError"
            /\ pc' = "raised"
            /\ UNCHANGED venv
       ELSE /\ venv' = [pipx_metadata |->
                           ReadMetadata(disk, in_file[venv_i].key)]
            /\ pc' = "json_install_main"
            /\ UNCHANGED exc
    /\ UNCHANGED <<jsonVars, disk, ret, printed, venv_i, exportVars, listVars,
                   uninjectVars, in_file, disk_before, force, freeze_data,
                   main_package_or_url, install_force, inject_i, ops>>

\* Lines 79-90: install the main package with the caller's force.
IJ_InstallMain ==
    /\ pc = "json_install_main"
    /\ \E ok \in InstallOutcomes(venv_metadata.main_package.package_or_url) :
         LET venv_name == in_file[venv_i].key
             package_spec == venv_metadata.main_package.package_or_url
             r == install(disk, venv_name, package_spec,
                          venv_metadata.main_package.pip_args,
                          venv_metadata.venv_args, force,
                          venv_metadata.main_package.include_dependencies,
                          venv_metadata.main_package.suffix, ok)
         IN  /\ ops' = Append(ops, Op("install", venv_name, package_spec.name,
                                      package_spec,
                                      venv_metadata.main_package.pip_args,
                                      force))
             /\ disk' = r.disk
             /\ printed' = printed \o r.printed
             /\ IF r.raised
                THEN /\ exc' = "PipxError"
                     /\ pc' = "raised"
                     /\ UNCHANGED inject_i
                ELSE /\ pc' = "json_inject"
                     /\ inject_i' = 1
                     /\ UNCHANGED exc
    /\ UNCHANGED <<jsonVars, ret, venv_i, exportVars, listVars, uninjectVars, in_file,
                   disk_before, force, venv_metadata, freeze_data, venv,
                   main_package_or_url, install_force>>

\* Lines 93-113 for one injected package of the Venv object's metadata:
\* inject is always called with force=True.
IJ_Inject ==
    /\ pc = "json_inject"
    /\ inject_i <= Len(venv.pipx_metadata.injected_packages)
    /\ LET venv_name == in_file[venv_i].key
           injected_name == venv.pipx_metadata.injected_packages[inject_i].key
           injected_package == venv.pipx_metadata.injected_packages[inject_i].val
       IN  IF injected_package.package_or_url = NoSpec
           THEN /\ exc' = "PipxError"
                /\ pc' = "raised"
                /\ UNCHANGED <<disk, ops, inject_i>>
           ELSE \E ok \in InstallOutcomes(injected_package.package_or_url) :
                LET r == inject(disk, venv_name, injected_name,
                                injected_package.package_or_url,
                                injected_package.pip_args,
                                injected_package.include_apps,
                                injected_package.include_dependencies,
                                TRUE, ok)
                IN  /\ ops' = Append(ops, Op("inject", venv_name,
                                             injected_name,
                                             injected_package.package_or_url,
                                             injected_package.pip_args,
                                             TRUE))
                    /\ disk' = r.disk
                    /\ IF r.raised
                       THEN /\ exc' = "PipxError"
                            /\ pc' = "raised"
                            /\ UNCHANGED inject_i
                       ELSE /\ inject_i' = inject_i + 1
                            /\ UNCHANGED <<exc, pc>>
    /\ UNCHANGED <<jsonVars, ret, printed, venv_i, exportVars, listVars, uninjectVars,
                   in_file, disk_before, force, venv_metadata, freeze_data,
                   venv, main_package_or_url, install_force>>

\* The injected loop is over: the next environment of the document.
IJ_EndVenv ==
    /\ pc = "json_inject"
    /\ inject_i > Len(venv.pipx_metadata.injected_packages)
    /\ venv_i' = venv_i + 1
    /\ pc' = "install_json"
    /\ UNCHANGED <<jsonVars, disk, ret, exc, printed, exportVars, installVars,
                   listVars, uninjectVars>>

\* Line 135: every environment of the document was visited.
IJ_Return ==
    /\ pc = "install_json"
    /\ venv_i > Len(in_file)
    /\ ret' = 0
    /\ pc' = "done"
    /\ UNCHANGED <<jsonVars, disk, exc, printed, venv_i, exportVars, installVars,
                   listVars, uninjectVars>>

NextJson ==
    \/ EJ_Start
    \/ EJ_GetVenvInfo
    \/ EJ_EnvChanged
    \/ EJ_Write
    \/ IJ_BeginVenv
    \/ IJ_InstallMain
    \/ IJ_Inject
    \/ IJ_EndVenv
    \/ IJ_Return

SpecJson == InitJson /\ [][NextJson]_vars
-----------------------------------------------------------------------------
(* Exporting twice: export_spec and export_json, each called a second time *)
(* on the container the first call was given                               *)

\* export_json is called on a container of environments; every environment
\* with metadata has the same shape.
InitExportJson ==
    /\ \E st \in [VenvNames -> DirStates], sh \in Shapes :
          /\ sh.main = "name" /\ sh.deps = 0
          /\ disk = [v \in VenvNames |-> DirOf(v, st[v], sh)]
    /\ pool \in BOOLEAN
    /\ command = "export_json" /\ pc = "export_json" /\ runs = 1
    /\ first_file = NoFile /\ first_end = NoEnd
    /\ skip_list = {} /\ include_list = NoneList
    /\ freeze = FALSE /\ freeze_all = FALSE
    /\ venv_dirs_export = <<>> /\ spec_metadata = EmptySpecMetadata
    /\ out_file = NoFile /\ freeze_i = 0
    /\ pip_freeze_dict = <<>> /\ package_path = NoSpec
    /\ ret = None_ /\ exc = None_ /\ printed = <<>>
    /\ venv_i = 0
    /\ only_outdated = FALSE
    /\ pip_config = [index_url |-> DEFAULT_PYPI_SIMPLE_URL,
                     extra_index_urls |-> <<>>]
    /\ all_dirs = <<>> /\ list_dirs = <<>> /\ results = <<>> /\ completed = <<>>
    /\ emit_i = 0 /\ all_venv_problems = NoProblems
    /\ dirs_version_unknown = <<>> /\ dirs_version_outdated = <<>>
    /\ lookups = <<>>
    /\ IdleJson
    /\ IdleInstall
    /\ IdleUninject

\* export_json called once more on the container as it is: a new call
\* starts with fresh locals, the output file of the previous call is still
\* there until line 49 opens it for writing.
EJ_CallAgain ==
    /\ command = "export_json"
    /\ pc = "done" /\ runs = 1
    /\ runs' = 2
    /\ first_file' = out_file
    /\ first_end' = [ret |-> ret, exc |-> exc, printed |-> printed,
                     completed |-> export_completed]
    /\ pc' = "export_json" /\ ret' = None_ /\ printed' = <<>>
    /\ export_dirs' = <<>> /\ export_results' = <<>>
    /\ export_completed' = <<>>
    /\ UNCHANGED <<disk, exc, venv_i, skip_list, include_list, freeze,
                   freeze_all, venv_dirs_export, spec_metadata, out_file,
                   freeze_i, pip_freeze_dict, package_path, command,
                   installVars, listVars, uninjectVars>>

InitExports == InitExport \/ InitExportJson

NextExports ==
    \/ NextExport
    \/ EJ_Start
    \/ EJ_GetVenvInfo
    \/ EJ_EnvChanged
    \/ EJ_Write
    \/ EJ_CallAgain

SpecExports == InitExports /\ [][NextExports]_vars

\* Every dict of an export_json document has its keys in sorted order.
FlatDocumentInOrder(doc) ==
    /\ KeysInOrder(doc)
    /\ \A i \in DOMAIN doc : KeysInOrder(doc[i].val.injected_packages)

\* The call has ended, by a return or by an exception.
CallEnded == pc \in {"done", "raised"}

\* C15: a second export of the unchanged container with the same arguments
\* ends like the first (same return value or exception, same lines
\* printed) and leaves the same document, whatever the order in which the
\* directories are listed and the workers finish in either call; the
\* document export_json writes is the one its container determines; every
\* document written has its environments and all its keys in sorted order.
C15_ExportIdempotent ==
    /\ (out_file.written /\ command = "export_spec")
          => DocumentInOrder(out_file.content)
    /\ (out_file.written /\ command = "export_json")
          => FlatDocumentInOrder(out_file.content)
    /\ (runs = 2 /\ CallEnded /\ disk = disk_before)
          => /\ out_file = first_file
             /\ ret = first_end.ret
             /\ exc = first_end.exc
             /\ printed = first_end.printed
    /\ (command = "export_json" /\ pc = "done" /\ disk = disk_before)
          => \A l \in Listings(disk) :
                /\ out_file = export_json(disk, l, export_completed).file
                /\ printed = export_json(disk, l, export_completed).printed

\* C15's case: export_json run twice on an unchanged container of several
\* environments, one of them with two injected packages stored out of name
\* order; the workers of the second call finish in another order than
\* those of the first, and the document is the same.
C15_Witness ==
    /\ command = "export_json" /\ runs = 2 /\ pc = "done" /\ ret = 0
    /\ disk = disk_before
    /\ out_file.written /\ out_file = first_file
    /\ Len(out_file.content) >= 2
    /\ first_end.completed # export_completed
    /\ \E v \in iter_venv_dirs(disk) :
          /\ Len(disk[v].file.injected_packages) = 2
          /\ ~KeysInOrder(disk[v].file.injected_packages)
          /\ KeysInOrder(DictGet(out_file.content, v).injected_packages)
====
